---- MODULE Spec2Model ----
(***************************************************************************)
(* A model of the plist library: the ASCII reader, the binary reader and   *)
(* writer, the XML writer and reader, the autodetecting reader facade, the *)
(* Dictionary, and the conversions of Integer and Date.                    *)
(*                                                                         *)
(* Every component keeps its state in one record variable.  A behaviour    *)
(* exercises one component: the Init of a specification draws the input of *)
(* that component from a bounded set and leaves the others idle.           *)
(***************************************************************************)
EXTENDS Integers, Sequences, FiniteSets, TLC

VARIABLES ascii, bin, bw, xmlw, det, xmlr, dict, integer, date, counted, iter

vars == <<ascii, bin, bw, xmlw, det, xmlr, dict, integer, date, counted,
          iter>>

(***************************************************************************)
(* Bounds of the model.                                                    *)
(***************************************************************************)
\* longest input handed to the ASCII reader
MaxAsciiLen == 4
\* calls of next() made on one ASCII reader
MaxCalls == 6
\* calls of next() made on one binary reader
MaxBinCalls == 12
\* objects of a binary document
MaxObjs == 2
\* calls of next() made on one autodetecting reader
MaxDetCalls == 3
\* length of the short inputs of the autodetecting reader
MaxDetLen == 3
\* events written to one XML writer
MaxXmlEvents == 4
\* the longest input of a single ASCII token
MaxTokLen == 3
\* tokens of the markup handed to the XML reader
MaxXmlTokens == 4
\* calls of next() made on one XML reader
MaxXmlCalls == 5
\* operations made on one Dictionary
MaxDictOps == 5

(***************************************************************************)
(* Bytes and small helpers.                                                *)
(***************************************************************************)
NoByte == -1

Idle == [active |-> FALSE]

RECURSIVE SeqsUpTo(_, _)
SeqsUpTo(S, n) ==
    IF n = 0 THEN {<<>>}
    ELSE LET shorter == SeqsUpTo(S, n - 1)
         IN  shorter \cup {Append(s, x) : s \in {t \in shorter : Len(t) = n - 1}, x \in S}

\* Character codes used by the readers.
ChTab == 9
ChLF == 10
ChFF == 12
ChCR == 13
ChSpace == 32
ChQuote == 34
ChLParen == 40
ChRParen == 41
ChStar == 42
ChPlus == 43
ChComma == 44
ChMinus == 45
ChSlash == 47
ChZero == 48
ChNine == 57
ChSemi == 59
ChLt == 60
ChEq == 61
ChBackslash == 92
ChLBrace == 123
ChRBrace == 125

(***************************************************************************)
(* Results of a call of next().                                            *)
(*   kind "init"  : no call was made yet                                   *)
(*   kind "event" : Some(Ok(event))                                        *)
(*   kind "err"   : Some(Err(err))                                         *)
(*   kind "none"  : None, the end of the stream                            *)
(*   kind "hang"  : the call never returns                                 *)
(*   kind "panic" : the call panics                                        *)
(***************************************************************************)
NoEvent == [kind |-> "-", val |-> <<>>]
Ev(k, v) == [kind |-> k, val |-> v]

ResInit == [kind |-> "init", ev |-> NoEvent, err |-> "-"]
ResEvent(e) == [kind |-> "event", ev |-> e, err |-> "-"]
ResErr(e) == [kind |-> "err", ev |-> NoEvent, err |-> e]
ResNone == [kind |-> "none", ev |-> NoEvent, err |-> "-"]
ResHang == [kind |-> "hang", ev |-> NoEvent, err |-> "-"]
ResPanic(why) == [kind |-> "panic", ev |-> NoEvent, err |-> why]

(***************************************************************************)
(* String::from_utf8: whether a byte sequence is well-formed UTF-8.        *)
(***************************************************************************)
IsCont(b) == b >= 128 /\ b <= 191

RECURSIVE Utf8Valid(_)
Utf8Valid(s) ==
    IF s = <<>> THEN TRUE
    ELSE LET b == Head(s)
             n == Len(s)
         IN  IF b < 128 THEN Utf8Valid(Tail(s))
             ELSE IF b >= 194 /\ b <= 223
               THEN n >= 2 /\ IsCont(s[2]) /\ Utf8Valid(SubSeq(s, 3, n))
             ELSE IF b >= 224 /\ b <= 239
               THEN /\ n >= 3
                    /\ IsCont(s[2]) /\ IsCont(s[3])
                    /\ (b = 224 => s[2] >= 160)
                    /\ (b = 237 => s[2] <= 159)
                    /\ Utf8Valid(SubSeq(s, 4, n))
             ELSE IF b >= 240 /\ b <= 244
               THEN /\ n >= 4
                    /\ IsCont(s[2]) /\ IsCont(s[3]) /\ IsCont(s[4])
                    /\ (b = 240 => s[2] >= 144)
                    /\ (b = 244 => s[2] <= 143)
                    /\ Utf8Valid(SubSeq(s, 5, n))
             ELSE FALSE

(***************************************************************************)
(* Integer::from_str.  The text is decimal with an optional sign, parsed   *)
(* as i64 and then as u64, or 0x followed by hexadecimal digits.  The      *)
(* texts the model parses are at most MaxAsciiLen bytes long, so every     *)
(* value that parses is far inside both ranges.                            *)
(***************************************************************************)
IsDigit(b) == b >= ChZero /\ b <= ChNine

HexVal(b) ==
    IF IsDigit(b) THEN b - 48
    ELSE IF b >= 97 /\ b <= 102 THEN b - 87
    ELSE IF b >= 65 /\ b <= 70 THEN b - 55
    ELSE -1

RECURSIVE DigitsValue(_, _, _)
DigitsValue(s, radix, acc) ==
    IF s = <<>> THEN acc
    ELSE DigitsValue(Tail(s), radix, acc * radix + HexVal(Head(s)))

AllDigits(s, radix) ==
    /\ s # <<>>
    /\ \A i \in 1..Len(s) : HexVal(s[i]) >= 0 /\ HexVal(s[i]) < radix

\* str::trim_start_matches("0x"): every leading repetition of the prefix goes
RECURSIVE TrimStart0x(_)
TrimStart0x(s) ==
    IF Len(s) >= 2 /\ s[1] = ChZero /\ s[2] = 120
      THEN TrimStart0x(SubSeq(s, 3, Len(s)))
      ELSE s

\* u64::from_str_radix and i64::from_str accept one leading '+'; i64 also '-'
IntegerFromStr(s) ==
    IF Len(s) >= 2 /\ s[1] = ChZero /\ s[2] = 120
      THEN LET t == TrimStart0x(s)
               d == IF t # <<>> /\ t[1] = ChPlus THEN Tail(t) ELSE t
           IN  IF AllDigits(d, 16)
                 THEN [ok |-> TRUE, neg |-> FALSE, mag |-> DigitsValue(d, 16, 0)]
                 ELSE [ok |-> FALSE, neg |-> FALSE, mag |-> 0]
      ELSE LET signed == s # <<>> /\ s[1] \in {ChPlus, ChMinus}
               d == IF signed THEN Tail(s) ELSE s
               v == DigitsValue(d, 10, 0)
           IN  IF AllDigits(d, 10)
                 THEN [ok |-> TRUE, neg |-> (s[1] = ChMinus /\ v # 0), mag |-> v]
                 ELSE [ok |-> FALSE, neg |-> FALSE, mag |-> 0]

IntegerEvent(p) == Ev("Integer", <<IF p.neg THEN 1 ELSE 0, p.mag>>)

(***************************************************************************)
(* The ASCII reader.                                                       *)
(*   input       : the bytes behind the reader                             *)
(*   off         : how many of them read_one has consumed                  *)
(*   peeked_char : the lookahead byte, NoByte for None                     *)
(*   current_pos : the reader's count of the bytes it handed out           *)
(* A step of one of the operators below is a record [st, ret, err, div]:   *)
(* the reader after the step, what the step returns, the error it raised   *)
(* ("-" for none) and whether the step runs forever.                       *)
(***************************************************************************)
AsciiNew(input) ==
    [active |-> TRUE, input |-> input, off |-> 0, peeked_char |-> NoByte,
     current_pos |-> 0, res |-> ResInit, calls |-> 0, nev |-> 0]

\* read_one: the next byte, or None at the end of the input
read_one(st) ==
    IF st.off < Len(st.input)
      THEN [st |-> [st EXCEPT !.off = st.off + 1], ret |-> st.input[st.off + 1]]
      ELSE [st |-> st, ret |-> NoByte]

\* advance without the second read that boots the lookahead
advance_NoBoot(st) ==
    LET r1 == read_one(st)
    IN  [st |-> [r1.st EXCEPT !.peeked_char = r1.ret,
                              !.current_pos = IF st.peeked_char # NoByte
                                                THEN st.current_pos + 1
                                                ELSE st.current_pos],
         ret |-> st.peeked_char]

advance(st) ==
    LET r1 == read_one(st)
        boot == st.current_pos = 0
        r2 == IF boot THEN read_one(r1.st) ELSE r1
        cur_char == IF boot THEN r1.ret ELSE st.peeked_char
        peeked == IF boot THEN r2.ret ELSE r1.ret
    IN  [st |-> [r2.st EXCEPT !.peeked_char = peeked,
                              !.current_pos = IF cur_char # NoByte
                                                THEN st.current_pos + 1
                                                ELSE st.current_pos],
         ret |-> cur_char]

UnquotedStop == {ChSpace, ChRParen, ChCR, ChTab, ChSemi, ChComma}

RECURSIVE UnquotedLoop(_, _)
UnquotedLoop(st, acc) ==
    IF st.peeked_char # NoByte /\ st.peeked_char \notin UnquotedStop
      THEN LET a == advance(st)
           IN  IF a.ret = NoByte
                 THEN [st |-> a.st, acc |-> acc, err |-> "UnclosedString"]
                 ELSE UnquotedLoop(a.st, Append(acc, a.ret))
      ELSE [st |-> st, acc |-> acc, err |-> "-"]

unquoted_string_literal(st, first) ==
    LET l == UnquotedLoop(st, <<first>>)
    IN  IF l.err # "-" THEN [st |-> l.st, res |-> ResErr(l.err)]
        ELSE IF ~Utf8Valid(l.acc)
          THEN [st |-> l.st, res |-> ResErr("InvalidUtf8AsciiStream")]
        ELSE LET p == IntegerFromStr(l.acc)
             IN  IF p.ok THEN [st |-> l.st, res |-> ResEvent(IntegerEvent(p))]
                 ELSE [st |-> l.st, res |-> ResEvent(Ev("String", l.acc))]

RECURSIVE QuotedLoop(_, _, _)
QuotedLoop(st, acc, cur_char) ==
    IF st.peeked_char # NoByte /\ (st.peeked_char # ChQuote \/ cur_char = ChBackslash)
      THEN LET a == advance(st)
           IN  IF a.ret = NoByte
                 THEN [st |-> a.st, acc |-> acc, err |-> "UnclosedString"]
                 ELSE QuotedLoop(a.st, Append(acc, a.ret), a.ret)
      ELSE [st |-> st, acc |-> acc, err |-> "-"]

quoted_string_literal(st) ==
    LET l == QuotedLoop(st, <<>>, ChQuote)
        a == advance(l.st)
    IN  IF l.err # "-" THEN [st |-> l.st, res |-> ResErr(l.err)]
        ELSE IF a.ret = ChQuote
          THEN IF Utf8Valid(l.acc)
                 THEN [st |-> a.st, res |-> ResEvent(Ev("String", l.acc))]
                 ELSE [st |-> a.st, res |-> ResErr("InvalidUtf8AsciiStream")]
        ELSE [st |-> a.st, res |-> ResErr("UnclosedString")]

RECURSIVE line_comment(_)
line_comment(st) ==
    IF st.peeked_char # NoByte /\ st.peeked_char # ChLF
      THEN line_comment(advance(st).st)
      ELSE [st |-> st, div |-> FALSE]

(***************************************************************************)
(* block_comment: while latest_consume != '*' || advance() is Some(c) with *)
(* c != '/', the body sets latest_consume = advance().unwrap_or(' ').  An  *)
(* iteration that starts with latest_consume = ' ' at the end of the input *)
(* leaves the reader and latest_consume as they were, with the condition   *)
(* still true: from there the loop runs forever (div).                     *)
(***************************************************************************)
RECURSIVE BlockLoop(_, _)
BlockLoop(st, latest_consume) ==
    LET c == advance(st)
        goOn == latest_consume # ChStar \/ (c.ret # NoByte /\ c.ret # ChSlash)
        s1 == IF latest_consume # ChStar THEN st ELSE c.st
        b == advance(s1)
        latest == IF b.ret = NoByte THEN ChSpace ELSE b.ret
    IN  IF ~goOn THEN [st |-> c.st, div |-> FALSE]
        ELSE IF b.st = st /\ latest = latest_consume THEN [st |-> st, div |-> TRUE]
        ELSE BlockLoop(b.st, latest)

block_comment(st) == BlockLoop(st, ChSpace)

\* potential_comment: [st, res, skip, div]; skip: a comment was consumed
potential_comment(st) ==
    IF st.peeked_char = NoByte
      THEN [st |-> st, res |-> ResErr("IncompleteComment"), skip |-> FALSE, div |-> FALSE]
    ELSE IF st.peeked_char = ChSlash
      THEN LET c == line_comment(st)
           IN  [st |-> c.st, res |-> ResNone, skip |-> TRUE, div |-> c.div]
    ELSE IF st.peeked_char = ChStar
      THEN LET c == block_comment(st)
           IN  [st |-> c.st, res |-> ResNone, skip |-> TRUE, div |-> c.div]
    ELSE LET u == unquoted_string_literal(st, st.peeked_char)
         IN  [st |-> u.st, res |-> u.res, skip |-> FALSE, div |-> FALSE]

RECURSIVE ascii_read_next(_)

\* read_next after potential_comment returned p
AfterSlash(p) ==
    IF p.div THEN [st |-> p.st, res |-> ResHang]
    ELSE IF p.skip THEN ascii_read_next(p.st)
    ELSE [st |-> p.st, res |-> p.res]

\* the match of read_next on the byte c that advance returned, s the reader after it
MatchByte(s, c) ==
    IF c = NoByte THEN [st |-> s, res |-> ResNone]
    ELSE IF c = ChLParen THEN [st |-> s, res |-> ResEvent(Ev("StartArray", <<>>))]
    ELSE IF c = ChRParen THEN [st |-> s, res |-> ResEvent(Ev("EndCollection", <<>>))]
    ELSE IF c = ChLBrace THEN [st |-> s, res |-> ResEvent(Ev("StartDictionary", <<>>))]
    ELSE IF c = ChRBrace THEN [st |-> s, res |-> ResEvent(Ev("EndCollection", <<>>))]
    ELSE IF c = ChQuote THEN quoted_string_literal(s)
    ELSE IF c = ChSlash THEN AfterSlash(potential_comment(s))
    ELSE IF c \in {ChComma, ChSemi, ChEq, ChSpace, ChCR, ChTab, ChLF}
      THEN ascii_read_next(s)
    ELSE unquoted_string_literal(s, c)

AfterAdvance(a) == MatchByte(a.st, a.ret)

ascii_read_next(st) == AfterAdvance(advance(st))

\* what next() leaves in the reader that was st, read_next having returned r
AsciiReturned(st, r) ==
    [r.st EXCEPT !.res = r.res, !.calls = st.calls + 1,
                 !.nev = IF r.res.kind = "event" THEN st.nev + 1 ELSE st.nev]

\* Iterator::next of AsciiReader: no state is kept between calls but the reader's
ascii_next(st) == AsciiReturned(st, ascii_read_next(st))

(***************************************************************************)
(* Byte arithmetic.                                                        *)
(***************************************************************************)
RECURSIVE BEValue(_, _)
\* a big-endian unsigned integer
BEValue(bytes, acc) ==
    IF bytes = <<>> THEN acc ELSE BEValue(Tail(bytes), acc * 256 + Head(bytes))

RECURSIVE NatToBE(_, _)
\* the low `width` bytes of n, big-endian (n as uN).to_be_bytes()
NatToBE(n, width) ==
    IF width = 0 THEN <<>> ELSE Append(NatToBE(n \div 256, width - 1), (n % 256))

Zeros(n) == [i \in 1..n |-> 0]

(***************************************************************************)
(* Integers of the value model, in [i64::MIN, u64::MAX], are kept as a     *)
(* sign and the 8 big-endian bytes of the magnitude: <<neg, m1, ..., m8>>  *)
(* with neg 1 only for a magnitude in 1..2^63.                             *)
(***************************************************************************)
IntOf(neg, mag8) == <<IF neg /\ mag8 # Zeros(8) THEN 1 ELSE 0>> \o mag8
IntNeg(i) == i[1] = 1
IntMag(i) == SubSeq(i, 2, 9)

RECURSIVE AddOne(_)
\* bytes + 1 modulo 2^(8 * Len)
AddOne(bytes) ==
    IF bytes = <<>> THEN <<>>
    ELSE LET n == Len(bytes)
             last == bytes[n]
         IN  IF last = 255 THEN Append(AddOne(SubSeq(bytes, 1, n - 1)), 0)
             ELSE Append(SubSeq(bytes, 1, n - 1), last + 1)

\* two's complement negation of a byte string
TwosNeg(bytes) == AddOne([i \in 1..Len(bytes) |-> 255 - bytes[i]])

\* read_i64: the 8 bytes as a signed integer
I64FromBE(bytes) ==
    IF bytes[1] >= 128 THEN IntOf(TRUE, TwosNeg(bytes)) ELSE IntOf(FALSE, bytes)

\* read_u8 / read_u16 / read_u32 as i64: zero-extended
UnsignedFromBE(bytes) == IntOf(FALSE, Zeros(8 - Len(bytes)) \o bytes)

(***************************************************************************)
(* The binary reader (EventReader).                                        *)
(*   input          : the bytes behind the reader                          *)
(*   stack          : frames [object_refs, ty], the last one on top        *)
(*   object_offsets : the offset table                                     *)
(*   ref_size       : 0 until the trailer was read                         *)
(*   finished       : set by next() on an error or the end                 *)
(*   alloc          : the largest element count any buffer was allocated   *)
(*                    for so far (Vec::with_capacity, vec![0; len])        *)
(*   events         : the events returned so far                           *)
(* A read is a record [ok, val, pos]; a failed read is an UnexpectedEof.   *)
(* Seeking past the end succeeds, and the next read fails.                 *)
(***************************************************************************)
BinNew(input) ==
    [active |-> TRUE, input |-> input, stack |-> <<>>, object_offsets |-> <<>>,
     ref_size |-> 0, finished |-> FALSE, res |-> ResInit, calls |-> 0,
     alloc |-> 0, events |-> <<>>]

RECURSIVE Concat(_)
Concat(ss) == IF ss = <<>> THEN <<>> ELSE Head(ss) \o Concat(Tail(ss))

Magic == <<98, 112, 108, 105, 115, 116, 48, 48>>

ReadExact(input, pos, n) ==
    IF pos + n <= Len(input)
      THEN [ok |-> TRUE, val |-> SubSeq(input, pos + 1, pos + n), pos |-> pos + n]
      ELSE [ok |-> FALSE, val |-> <<>>, pos |-> pos]

\* Read::read into an 8-byte zeroed buffer: what is there, the rest stays 0
ReadMagic(input) ==
    LET n == IF Len(input) < 8 THEN Len(input) ELSE 8
    IN  SubSeq(input, 1, n) \o Zeros(8 - n)

Max(a, b) == IF a >= b THEN a ELSE b

\* read_ints: [err, ints, pos, alloc]
RECURSIVE ReadIntsLoop(_, _, _, _, _)
ReadIntsLoop(input, pos, left, size, ints) ==
    IF left = 0 THEN [err |-> "-", ints |-> ints, pos |-> pos]
    ELSE IF size \notin {1, 2, 4, 8} THEN [err |-> "InvalidData", ints |-> ints, pos |-> pos]
    ELSE LET r == ReadExact(input, pos, size)
         IN  IF ~r.ok THEN [err |-> "UnexpectedEof", ints |-> ints, pos |-> pos]
             ELSE ReadIntsLoop(input, r.pos, left - 1, size, Append(ints, BEValue(r.val, 0)))

read_ints(input, pos, len, size) ==
    LET l == ReadIntsLoop(input, pos, len, size, <<>>)
    IN  [err |-> l.err, ints |-> l.ints, pos |-> l.pos, alloc |-> len]

\* read_object_len: [err, len, pos]
read_object_len(input, pos, len) ==
    IF len % 16 = 15
      THEN LET m == ReadExact(input, pos, 1)
               len_power_of_two == IF m.ok THEN m.val[1] % 4 ELSE 0
               width == IF len_power_of_two = 0 THEN 1
                        ELSE IF len_power_of_two = 1 THEN 2
                        ELSE IF len_power_of_two = 2 THEN 4 ELSE 8
               v == ReadExact(input, m.pos, width)
           IN  IF ~m.ok \/ ~v.ok THEN [err |-> "UnexpectedEof", len |-> 0, pos |-> pos]
               ELSE [err |-> "-", len |-> BEValue(v.val, 0), pos |-> v.pos]
      ELSE [err |-> "-", len |-> len, pos |-> pos]

\* read_data: [err, data, pos, alloc]; the buffer is allocated before any read
read_data(input, pos, len) ==
    LET r == ReadExact(input, pos, len)
    IN  IF r.ok THEN [err |-> "-", data |-> r.val, pos |-> r.pos, alloc |-> len]
        ELSE [err |-> "UnexpectedEof", data |-> <<>>, pos |-> pos, alloc |-> len]

\* read_trailer: [st, err, panic]
read_trailer(st) ==
    LET input == st.input
        n == Len(input)
        t == n - 26
        offset_size == input[t + 1]
        ref_size == input[t + 2]
        num_objects == BEValue(SubSeq(input, t + 3, t + 10), 0)
        top_object == BEValue(SubSeq(input, t + 11, t + 18), 0)
        offset_table_offset == BEValue(SubSeq(input, t + 19, t + 26), 0)
        ints == read_ints(input, offset_table_offset, num_objects, offset_size)
    IN  IF ReadMagic(input) # Magic
          THEN [st |-> st, err |-> "-", panic |-> "assert_eq magic"]
        ELSE IF t < 0
          THEN [st |-> st, err |-> "Io", panic |-> "-"]
        ELSE IF ints.err # "-"
          THEN [st |-> [st EXCEPT !.ref_size = ref_size,
                                  !.alloc = Max(st.alloc, ints.alloc)],
                err |-> ints.err, panic |-> "-"]
        ELSE [st |-> [st EXCEPT !.ref_size = ref_size,
                                !.alloc = Max(st.alloc, ints.alloc),
                                !.object_offsets = ints.ints,
                                !.stack = Append(st.stack,
                                    [object_refs |-> <<top_object>>, ty |-> "Root"])],
              err |-> "-", panic |-> "-"]

Reverse(s) == [i \in 1..Len(s) |-> s[Len(s) + 1 - i]]

\* the references of a dictionary frame in stored order: every key, then every value
DictRefs_KeysThenValues(key_refs, value_refs) == Reverse(key_refs \o value_refs)

\* the references of a dictionary frame: value, key, value, key from the last entry
DictRefs(key_refs, value_refs) ==
    LET len == Len(key_refs)
    IN  [j \in 1..(2 * len) |->
            IF j % 2 = 1 THEN value_refs[len - ((j + 1) \div 2) + 1]
            ELSE key_refs[len - (j \div 2) + 1]]

(***************************************************************************)
(* Strings are Rust Strings: their UTF-8 bytes.  Utf8Decode gives the code *)
(* points of well-formed UTF-8, Utf8Encode is its inverse; Utf16Encode is  *)
(* str::encode_utf16 and Utf16Decode is String::from_utf16, which fails on *)
(* an unpaired surrogate.                                                  *)
(***************************************************************************)
RECURSIVE Utf8Decode(_)
Utf8Decode(s) ==
    IF s = <<>> THEN <<>>
    ELSE LET b == Head(s)
             n == Len(s)
         IN  IF b < 128 THEN <<b>> \o Utf8Decode(Tail(s))
             ELSE IF b < 224
               THEN <<(b - 192) * 64 + (s[2] - 128)>> \o Utf8Decode(SubSeq(s, 3, n))
             ELSE IF b < 240
               THEN <<(b - 224) * 4096 + (s[2] - 128) * 64 + (s[3] - 128)>>
                    \o Utf8Decode(SubSeq(s, 4, n))
             ELSE <<(b - 240) * 262144 + (s[2] - 128) * 4096 + (s[3] - 128) * 64
                    + (s[4] - 128)>> \o Utf8Decode(SubSeq(s, 5, n))

Utf8EncodeOne(c) ==
    IF c < 128 THEN <<c>>
    ELSE IF c < 2048 THEN <<192 + (c \div 64), 128 + (c % 64)>>
    ELSE IF c < 65536
      THEN <<224 + (c \div 4096), 128 + ((c \div 64) % 64), 128 + (c % 64)>>
    ELSE <<240 + (c \div 262144), 128 + ((c \div 4096) % 64),
           128 + ((c \div 64) % 64), 128 + (c % 64)>>

RECURSIVE Utf8Encode(_)
Utf8Encode(cps) ==
    IF cps = <<>> THEN <<>> ELSE Utf8EncodeOne(Head(cps)) \o Utf8Encode(Tail(cps))

RECURSIVE Utf16Encode(_)
Utf16Encode(cps) ==
    IF cps = <<>> THEN <<>>
    ELSE LET c == Head(cps)
         IN  (IF c < 65536 THEN <<c>>
              ELSE <<55296 + ((c - 65536) \div 1024), 56320 + ((c - 65536) % 1024)>>)
             \o Utf16Encode(Tail(cps))

\* [ok, cps]
RECURSIVE Utf16Decode(_)
Utf16Decode(units) ==
    IF units = <<>> THEN [ok |-> TRUE, cps |-> <<>>]
    ELSE LET u == Head(units)
         IN  IF u < 55296 \/ u > 57343
               THEN LET r == Utf16Decode(Tail(units))
                    IN  [ok |-> r.ok, cps |-> <<u>> \o r.cps]
             ELSE IF u <= 56319 /\ Len(units) >= 2 /\ units[2] >= 56320 /\ units[2] <= 57343
               THEN LET r == Utf16Decode(SubSeq(units, 3, Len(units)))
                    IN  [ok |-> r.ok,
                         cps |-> <<65536 + (u - 55296) * 1024 + (units[2] - 56320)>> \o r.cps]
             ELSE [ok |-> FALSE, cps |-> <<>>]

\* the big-endian 16-bit units of an even number of bytes
RECURSIVE UnitsOf(_)
UnitsOf(bytes) ==
    IF Len(bytes) < 2 THEN <<>>
    ELSE <<bytes[1] * 256 + bytes[2]>> \o UnitsOf(SubSeq(bytes, 3, Len(bytes)))

(***************************************************************************)
(* A date object holds the f64 seconds since 2001-01-01.  The event keeps  *)
(* the 8 bytes.  UTC.timestamp panics outside chrono's range of years,     *)
(* which ends below 2^43 seconds: the biased exponent tells the cases      *)
(* apart but for the values in [2^42, 2^43) and for NaN, whose cast to i64 *)
(* older compilers leave undefined; there the outcome is chosen by `ch`.   *)
(***************************************************************************)
F64Exponent(b) == ((b[1] % 128) * 16) + (b[2] \div 16)
F64IsNaN(b) ==
    F64Exponent(b) = 2047 /\ (b[2] % 16 # 0 \/ \E i \in 3..8 : b[i] # 0)

DatePanics(b, ch) ==
    IF F64IsNaN(b) \/ F64Exponent(b) = 1023 + 42 THEN ch
    ELSE F64Exponent(b) > 1023 + 42

\* read_next after the seek to an object: [st, res]
read_object(st, start, ch) ==
    LET input == st.input
        tk == ReadExact(input, start, 1)
        token == IF tk.ok THEN tk.val[1] ELSE 0
        ty == token \div 16
        size == token % 16
        pos == tk.pos
        Fail(e) == [st |-> st, res |-> ResErr(e)]
        Yield(e) == [st |-> st, res |-> ResEvent(e)]
        Fixed(n, kind, conv(_)) ==
            LET r == ReadExact(input, pos, n)
            IN  IF r.ok THEN Yield(Ev(kind, conv(r.val))) ELSE Fail("UnexpectedEof")
        Raw(b) == b
        Tagged(b) == <<Len(b)>> \o b
    IN  IF ~tk.ok THEN Fail("UnexpectedEof")
        ELSE IF ty = 0 /\ size = 8 THEN Yield(Ev("Boolean", <<0>>))
        ELSE IF ty = 0 /\ size = 9 THEN Yield(Ev("Boolean", <<1>>))
        ELSE IF ty = 1 /\ size = 0 THEN Fixed(1, "Integer", UnsignedFromBE)
        ELSE IF ty = 1 /\ size = 1 THEN Fixed(2, "Integer", UnsignedFromBE)
        ELSE IF ty = 1 /\ size = 2 THEN Fixed(4, "Integer", UnsignedFromBE)
        ELSE IF ty = 1 /\ size = 3 THEN Fixed(8, "Integer", I64FromBE)
        ELSE IF ty = 2 /\ size = 2 THEN Fixed(4, "Real", Tagged)
        ELSE IF ty = 2 /\ size = 3 THEN Fixed(8, "Real", Raw)
        ELSE IF ty = 3 /\ size = 3
          THEN LET r == ReadExact(input, pos, 8)
               IN  IF ~r.ok THEN Fail("UnexpectedEof")
                   ELSE IF DatePanics(r.val, ch)
                     THEN [st |-> st, res |-> ResPanic("UTC.timestamp")]
                   ELSE Yield(Ev("Date", r.val))
        ELSE IF ty = 4
          THEN LET l == read_object_len(input, pos, size)
                   d == read_data(input, l.pos, l.len)
                   st1 == [st EXCEPT !.alloc = Max(st.alloc, d.alloc)]
               IN  IF l.err # "-" THEN Fail(l.err)
                   ELSE IF d.err # "-" THEN [st |-> st1, res |-> ResErr(d.err)]
                   ELSE [st |-> st1, res |-> ResEvent(Ev("Data", d.data))]
        ELSE IF ty = 5
          THEN LET l == read_object_len(input, pos, size)
                   d == read_data(input, l.pos, l.len)
                   st1 == [st EXCEPT !.alloc = Max(st.alloc, d.alloc)]
               IN  IF l.err # "-" THEN Fail(l.err)
                   ELSE IF d.err # "-" THEN [st |-> st1, res |-> ResErr(d.err)]
                   ELSE IF ~Utf8Valid(d.data)
                     THEN [st |-> st1, res |-> ResPanic("from_utf8 unwrap")]
                   ELSE [st |-> st1, res |-> ResEvent(Ev("String", d.data))]
        ELSE IF ty = 6
          THEN LET l == read_object_len(input, pos, size * 2)
                   d == read_data(input, l.pos, l.len)
                   st1 == [st EXCEPT !.alloc = Max(st.alloc, Max(d.alloc, l.len \div 2))]
                   u == Utf16Decode(UnitsOf(d.data))
               IN  IF l.err # "-" THEN Fail(l.err)
                   ELSE IF d.err # "-"
                     THEN [st |-> [st EXCEPT !.alloc = Max(st.alloc, d.alloc)],
                           res |-> ResErr(d.err)]
                   ELSE IF ~u.ok THEN [st |-> st1, res |-> ResErr("InvalidData")]
                   ELSE [st |-> st1, res |-> ResEvent(Ev("String", Utf8Encode(u.cps)))]
        ELSE IF ty = 10
          THEN LET l == read_object_len(input, pos, size)
                   r == read_ints(input, l.pos, l.len, st.ref_size)
                   st1 == [st EXCEPT !.alloc = Max(st.alloc, r.alloc)]
               IN  IF l.err # "-" THEN Fail(l.err)
                   ELSE IF r.err # "-" THEN [st |-> st1, res |-> ResErr(r.err)]
                   ELSE [st |-> [st1 EXCEPT !.stack = Append(st.stack,
                                     [object_refs |-> Reverse(r.ints), ty |-> "Array"])],
                         res |-> ResEvent(Ev("StartArray", <<l.len>>))]
        ELSE IF ty = 13
          THEN LET l == read_object_len(input, pos, size)
                   k == read_ints(input, l.pos, l.len, st.ref_size)
                   v == read_ints(input, k.pos, l.len, st.ref_size)
                   st1 == [st EXCEPT !.alloc = Max(st.alloc, k.alloc)]
                   st2 == [st EXCEPT !.alloc = Max(st.alloc, 2 * l.len)]
               IN  IF l.err # "-" THEN Fail(l.err)
                   ELSE IF k.err # "-" THEN [st |-> st1, res |-> ResErr(k.err)]
                   ELSE IF v.err # "-" THEN [st |-> st1, res |-> ResErr(v.err)]
                   ELSE [st |-> [st2 EXCEPT !.stack = Append(st.stack,
                                     [object_refs |-> DictRefs(k.ints, v.ints),
                                      ty |-> "Dict"])],
                         res |-> ResEvent(Ev("StartDictionary", <<l.len>>))]
        ELSE Fail("InvalidData")

\* read_next that ends every exhausted frame as an array
bin_read_next_EndsAsArray(st, ch) ==
    IF st.ref_size # 0 /\ st.stack # <<>>
       /\ st.stack[Len(st.stack)].object_refs = <<>>
      THEN [st |-> [st EXCEPT !.stack = SubSeq(st.stack, 1, Len(st.stack) - 1)],
            res |-> ResEvent(Ev("EndArray", <<>>))]
    ELSE IF st.ref_size = 0
      THEN LET t == read_trailer(st)
           IN  IF t.panic # "-" THEN [st |-> t.st, res |-> ResPanic(t.panic)]
               ELSE IF t.err # "-" THEN [st |-> t.st, res |-> ResErr(t.err)]
               ELSE [st |-> t.st, res |-> ResEvent(Ev("StartPlist", <<>>))]
    ELSE IF st.stack = <<>> THEN [st |-> st, res |-> ResNone]
    ELSE LET depth == Len(st.stack)
             top == st.stack[depth]
             nrefs == Len(top.object_refs)
             object_ref == top.object_refs[nrefs]
             st1 == [st EXCEPT !.stack[depth].object_refs =
                                   SubSeq(top.object_refs, 1, nrefs - 1)]
         IN  IF object_ref >= Len(st.object_offsets)
               THEN [st |-> st1, res |-> ResPanic("index out of bounds")]
               ELSE read_object(st1, st.object_offsets[object_ref + 1], ch)

\* seek_to_object indexes the offset table with the reference as it is
bin_read_next(st, ch) ==
    IF st.ref_size = 0
      THEN LET t == read_trailer(st)
           IN  IF t.panic # "-" THEN [st |-> t.st, res |-> ResPanic(t.panic)]
               ELSE IF t.err # "-" THEN [st |-> t.st, res |-> ResErr(t.err)]
               ELSE [st |-> t.st, res |-> ResEvent(Ev("StartPlist", <<>>))]
    ELSE IF st.stack = <<>> THEN [st |-> st, res |-> ResNone]
    ELSE LET depth == Len(st.stack)
             top == st.stack[depth]
             nrefs == Len(top.object_refs)
         IN  IF nrefs = 0
               THEN [st |-> [st EXCEPT !.stack = SubSeq(st.stack, 1, depth - 1)],
                     res |-> ResEvent(Ev(IF top.ty = "Array" THEN "EndArray"
                                         ELSE IF top.ty = "Dict" THEN "EndDictionary"
                                         ELSE "EndPlist", <<>>))]
             ELSE LET object_ref == top.object_refs[nrefs]
                      st1 == [st EXCEPT !.stack[depth].object_refs =
                                            SubSeq(top.object_refs, 1, nrefs - 1)]
                  IN  IF object_ref >= Len(st.object_offsets)
                        THEN [st |-> st1, res |-> ResPanic("index out of bounds")]
                        ELSE read_object(st1, st.object_offsets[object_ref + 1], ch)

\* Iterator::next of the binary reader
bin_next(st, ch) ==
    IF st.finished
      THEN [st EXCEPT !.res = ResNone, !.calls = st.calls + 1]
      ELSE LET r == bin_read_next(st, ch)
           IN  [r.st EXCEPT !.res = r.res,
                            !.calls = st.calls + 1,
                            !.finished = r.res.kind \in {"err", "none"},
                            !.events = IF r.res.kind = "event"
                                         THEN Append(st.events, r.res.ev)
                                         ELSE st.events]


(***************************************************************************)
(* Values.  A value is [t, s, c]: its type, the payload of a scalar and    *)
(* the children of a collection.                                           *)
(*   Boolean    s = <<0>> or <<1>>                                         *)
(*   Integer    s = <<neg, m1..m8>> (see IntOf)                            *)
(*   Real       s = the 8 bytes of the f64                                 *)
(*   Date       s = the 8 bytes of the f64 seconds since the plist epoch   *)
(*   Data       s = the bytes                                              *)
(*   String     s = the UTF-8 bytes                                        *)
(*   Array      c = the elements                                           *)
(*   Dictionary c = <<key 1, value 1, key 2, value 2, ...>>, each key a    *)
(*              String; the map is a BTreeMap, so the keys are strictly    *)
(*              increasing                                                 *)
(***************************************************************************)
Scalar(t, s) == [t |-> t, s |-> s, c |-> <<>>]
Coll(t, c) == [t |-> t, s |-> <<>>, c |-> c]
VBool(b) == Scalar("Boolean", <<IF b THEN 1 ELSE 0>>)
VStr(bytes) == Scalar("String", bytes)

DictLen(d) == Len(d.c) \div 2
DictKey(d, i) == d.c[2 * i - 1]
DictVal(d, i) == d.c[2 * i]

\* the order of str: byte by byte, a prefix first
RECURSIVE StrLess(_, _)
StrLess(a, b) ==
    IF b = <<>> THEN FALSE
    ELSE IF a = <<>> THEN TRUE
    ELSE IF Head(a) # Head(b) THEN Head(a) < Head(b)
    ELSE StrLess(Tail(a), Tail(b))

(***************************************************************************)
(* The binary writer.                                                      *)
(***************************************************************************)
\* size_of_count; 1 << 32 is written as 65536 * 65536
\* size_of_count whose limits are inclusive
size_of_count_Inclusive(count) ==
    IF count <= 256 THEN "U8"
    ELSE IF count <= 65536 THEN "U16"
    ELSE IF count \div 65536 <= 65536 THEN "U32"
    ELSE "U64"

size_of_count(count) ==
    IF count < 256 THEN "U8"
    ELSE IF count < 65536 THEN "U16"
    ELSE IF count \div 65536 < 65536 THEN "U32"
    ELSE "U64"

into_offset_size(r) ==
    IF r = "U8" THEN 1 ELSE IF r = "U16" THEN 2 ELSE IF r = "U32" THEN 4 ELSE 8

\* write_int_sized: a U32 is written through `ref_num as u16`
write_int_sized(ref_size, ref_num) ==
    IF ref_size = "U8" THEN NatToBE(ref_num, 1)
    ELSE IF ref_size = "U16" THEN NatToBE(ref_num, 2)
    ELSE IF ref_size = "U32" THEN NatToBE(ref_num, 2)
    ELSE NatToBE(ref_num, 8)

\* write_size: the marker with the count in its low nibble, or 0xF and the count
write_size(token, size) ==
    IF size < 15 THEN <<token + size>>
    ELSE IF size < 256 THEN <<token + 15, 16, size>>
    ELSE IF size < 65536 THEN <<token + 15, 17>> \o NatToBE(size, 2)
    ELSE IF size \div 65536 < 65536 THEN <<token + 15, 18>> \o NatToBE(size, 4)
    ELSE <<token + 15, 19>> \o NatToBE(size, 8)

\* get_ref_num: the index of v in the object list, -1 for None
get_ref_num(object_list, v) ==
    IF \E i \in 1..Len(object_list) : object_list[i] = v
      THEN (CHOOSE i \in 1..Len(object_list) : object_list[i] = v) - 1
      ELSE -1

upsert_to_object_list(object_list, v) ==
    IF get_ref_num(object_list, v) >= 0 THEN object_list ELSE Append(object_list, v)

\* flatten_inner that walks a dictionary entry by entry, each key before its value
RECURSIVE flatten_inner_EntryByEntry(_, _)
flatten_inner_EntryByEntry(object_list, v) ==
    LET l1 == upsert_to_object_list(object_list, v)
        RECURSIVE Each(_, _)
        Each(l, vs) ==
            IF vs = <<>> THEN l
            ELSE Each(flatten_inner_EntryByEntry(l, Head(vs)), Tail(vs))
    IN  IF v.t \in {"Dictionary", "Array"} THEN Each(l1, v.c) ELSE l1

RECURSIVE flatten_inner(_, _)
flatten_inner(object_list, v) ==
    LET l1 == upsert_to_object_list(object_list, v)
        RECURSIVE Each(_, _)
        Each(l, vs) == IF vs = <<>> THEN l ELSE Each(flatten_inner(l, Head(vs)), Tail(vs))
    IN  IF v.t = "Dictionary"
          THEN LET n == DictLen(v)
                   keys == [i \in 1..n |-> DictKey(v, i)]
                   values == [i \in 1..n |-> DictVal(v, i)]
               IN  Each(Each(l1, keys), values)
        ELSE IF v.t = "Array" THEN Each(l1, v.c)
        ELSE l1

\* the Integer arm of write_object
write_object_integer(i) ==
    LET m == IntMag(i)
        ZeroTo(k) == \A j \in 1..k : m[j] = 0
    IN  IF IntNeg(i) THEN <<19>> \o TwosNeg(m)
        ELSE IF ZeroTo(7) THEN <<16, m[8]>>
        ELSE IF ZeroTo(6) THEN <<17>> \o SubSeq(m, 7, 8)
        ELSE IF ZeroTo(4) THEN <<18>> \o SubSeq(m, 5, 8)
        ELSE IF m[1] < 128 THEN <<19>> \o m
        ELSE <<20>> \o Zeros(8) \o m

\* write_object: the bytes of one object
write_object(object_list, ref_size, v) ==
    LET Ref(x) == write_int_sized(ref_size, get_ref_num(object_list, x))
    IN  IF v.t = "Boolean" THEN (IF v.s = <<1>> THEN <<8>> ELSE <<9>>)
        ELSE IF v.t = "Integer" THEN write_object_integer(v.s)
        ELSE IF v.t = "Real" THEN <<35>> \o v.s
        ELSE IF v.t = "Date" THEN <<51>> \o v.s
        ELSE IF v.t = "Data" THEN write_size(64, Len(v.s)) \o v.s
        ELSE IF v.t = "String"
          THEN IF \A j \in 1..Len(v.s) : v.s[j] < 128
                 THEN write_size(80, Len(v.s)) \o v.s
                 ELSE LET utf16 == Utf16Encode(Utf8Decode(v.s))
                      IN  write_size(96, Len(utf16))
                          \o Concat([j \in 1..Len(utf16) |-> NatToBE(utf16[j], 2)])
        ELSE IF v.t = "Array"
          THEN write_size(160, Len(v.c)) \o Concat([j \in 1..Len(v.c) |-> Ref(v.c[j])])
        ELSE LET n == DictLen(v)
             IN  write_size(208, n)
                 \o Concat([j \in 1..n |-> Ref(DictKey(v, j))])
                 \o Concat([j \in 1..n |-> Ref(DictVal(v, j))])

\* BinaryWriter::new: only an array or a dictionary is taken as the root
BwStart(value) ==
    [active |-> TRUE, phase |-> "start", value |-> value, object_list |-> <<>>,
     object_offsets |-> <<>>, ref_size |-> "U8", written |-> 0, out |-> <<>>]

\* bw_new with every root value taken
bw_new_AnyRoot(w) == [w EXCEPT !.phase = "new"]

bw_new(w) ==
    IF w.value.t \in {"Array", "Dictionary"}
      THEN [w EXCEPT !.phase = "new"]
      ELSE [w EXCEPT !.phase = "rejected"]

\* the loop of write over the object list: [out, offsets]
RECURSIVE WriteObjects(_, _, _, _, _)
WriteObjects(object_list, ref_size, i, out, offsets) ==
    IF i > Len(object_list) THEN [out |-> out, offsets |-> offsets]
    ELSE LET o == object_list[i]
             ref_num == get_ref_num(object_list, o)
         IN  WriteObjects(object_list, ref_size, i + 1,
                          out \o write_object(object_list, ref_size, o),
                          [offsets EXCEPT ![ref_num + 1] = Len(out)])

\* BinaryWriter::write
bw_write(w) ==
    LET object_list == flatten_inner(<<>>, w.value)
        num_objects == Len(object_list)
        ref_size == size_of_count(num_objects)
        objs == WriteObjects(object_list, ref_size, 1, Magic, Zeros(num_objects))
        top_object_ref_num == get_ref_num(object_list, w.value)
        offset_table_offset == Len(objs.out)
        offset_table_offset_size == size_of_count(offset_table_offset)
        table == Concat([i \in 1..num_objects |->
                            write_int_sized(offset_table_offset_size, objs.offsets[i])])
        trailer == <<0, 0, 0, 0, 0,
                     into_offset_size(offset_table_offset_size),
                     into_offset_size(ref_size)>>
                   \o NatToBE(num_objects, 8)
                   \o NatToBE(top_object_ref_num, 8)
                   \o NatToBE(offset_table_offset, 8)
        out == objs.out \o table \o trailer
    IN  [w EXCEPT !.phase = "written", !.object_list = object_list,
                  !.object_offsets = objs.offsets, !.ref_size = ref_size,
                  !.written = Len(out), !.out = out]

(***************************************************************************)
(* The value builder: Builder::build over the events a reader returned.    *)
(* A step is [ok, val, at]: `at` is the index of the current token, one    *)
(* past the end for None.                                                  *)
(***************************************************************************)
Token(events, at) == IF at <= Len(events) THEN events[at] ELSE NoEvent

NoValue == Scalar("-", <<>>)

\* BTreeMap::insert on the sorted entry list <<k1, v1, k2, v2, ...>>
RECURSIVE MapInsert(_, _, _)
MapInsert(c, k, v) ==
    IF c = <<>> THEN <<k, v>>
    ELSE IF c[1] = k THEN <<k, v>> \o SubSeq(c, 3, Len(c))
    ELSE IF StrLess(k.s, c[1].s) THEN <<k, v>> \o c
    ELSE <<c[1], c[2]>> \o MapInsert(SubSeq(c, 3, Len(c)), k, v)

RECURSIVE build_value(_, _)
build_value(events, at) ==
    LET tok == Token(events, at)
        Bad == [ok |-> FALSE, val |-> NoValue, at |-> at]
        RECURSIVE build_array(_, _)
        \* `from` is the token before the next bump
        build_array(from, values) ==
            IF Token(events, from + 1).kind = "EndArray"
              THEN [ok |-> TRUE, val |-> Coll("Array", values), at |-> from + 1]
              ELSE LET e == build_value(events, from + 1)
                   IN  IF e.ok THEN build_array(e.at, Append(values, e.val)) ELSE Bad
        RECURSIVE build_dict(_, _)
        build_dict(from, entries) ==
            LET k == Token(events, from + 1)
            IN  IF k.kind = "EndDictionary"
                  THEN [ok |-> TRUE, val |-> Coll("Dictionary", entries), at |-> from + 1]
                ELSE IF k.kind = "String"
                  THEN LET e == build_value(events, from + 2)
                       IN  IF e.ok
                             THEN build_dict(e.at, MapInsert(entries, VStr(k.val), e.val))
                             ELSE Bad
                ELSE Bad
    IN  IF tok.kind = "StartArray" THEN build_array(at, <<>>)
        ELSE IF tok.kind = "StartDictionary" THEN build_dict(at, <<>>)
        ELSE IF tok.kind \in {"Boolean", "Data", "Date", "Integer", "Real", "String"}
          THEN [ok |-> TRUE, val |-> Scalar(tok.kind, tok.val), at |-> at]
        ELSE Bad

\* build: an optional StartPlist, one value, then the end or EndPlist
build(events) ==
    LET first == IF Token(events, 1).kind = "StartPlist" THEN 2 ELSE 1
        v == build_value(events, first)
        after == Token(events, v.at + 1)
    IN  IF v.ok /\ after.kind \in {"-", "EndPlist"} THEN v
        ELSE [ok |-> FALSE, val |-> NoValue, at |-> v.at]


(***************************************************************************)
(* The XML writer.                                                         *)
(*   write_root_element : the root_element option                          *)
(*   started_plist, stack, expecting_key, pending_collection : its fields  *)
(*   out      : what was written, one entry per piece: "prologue",         *)
(*              "</plist>", an opening, closing or empty collection tag,   *)
(*              "<key>" for a key element with its text, and the element   *)
(*              name of a scalar with its text                             *)
(*   res      : the result of the last write, "ok" or the error kind       *)
(*   last     : the kind of the last event                                 *)
(*   failed   : some write returned an error                               *)
(*   n        : the number of writes                                       *)
(* A step of a write is [w, err], err "-" for Ok.                          *)
(***************************************************************************)
XmlNew(root_element) ==
    [active |-> TRUE, write_root_element |-> root_element, started_plist |-> FALSE,
     stack |-> <<>>, expecting_key |-> FALSE, pending_collection |-> "None",
     out |-> <<>>, res |-> "init", last |-> "-", failed |-> FALSE, n |-> 0]

XOk(w) == [w |-> w, err |-> "-"]
XErr(w, e) == [w |-> w, err |-> e]
Emit(w, piece) == [w EXCEPT !.out = Append(w.out, piece)]

\* stack.last() == Some(&Element::Dictionary)
LastIsDictionary(w) == w.stack # <<>> /\ w.stack[Len(w.stack)] = "Dictionary"

\* the closures of write_value_event: the opening tag of a pending collection, or
\* the element of a scalar
ValueClosure(this, element) ==
    IF element = "<array>"
      THEN XOk([Emit(this, "<array>") EXCEPT !.stack = Append(this.stack, "Array")])
    ELSE IF element = "<dict>"
      THEN XOk([Emit(this, "<dict>") EXCEPT !.stack = Append(this.stack, "Dictionary"),
                                             !.expecting_key = TRUE])
    ELSE XOk(Emit(this, element))

\* the closure write_value_event hands to write_event
ValueEventClosure(this, element) ==
    IF this.expecting_key THEN XErr(this, "UnexpectedEventType")
    ELSE LET r == ValueClosure(this, element)
         IN  IF r.err # "-" THEN r
             ELSE XOk([r.w EXCEPT !.expecting_key = LastIsDictionary(r.w)])

\* the closure of write_end_collection
EndCollectionClosure(this) ==
    LET taken == [this EXCEPT !.pending_collection = "None"]
        depth == Len(this.stack)
        popped == [taken EXCEPT !.stack = SubSeq(this.stack, 1, depth - 1)]
        Closed(t) == XOk([t EXCEPT !.expecting_key = LastIsDictionary(t)])
    IN  IF this.pending_collection = "Array" THEN Closed(Emit(taken, "<array/>"))
        ELSE IF this.pending_collection = "Dictionary" THEN Closed(Emit(taken, "<dict/>"))
        ELSE IF depth = 0 THEN XErr(taken, "UnexpectedEventType")
        ELSE IF this.stack[depth] = "Array" THEN Closed(Emit(popped, "</array>"))
        ELSE IF this.expecting_key THEN Closed(Emit(popped, "</dict>"))
        ELSE XErr(popped, "UnexpectedEventType")

\* the closure of write_string that keeps expecting a key after a key
StringClosure_KeyKeepsFlag(this) ==
    IF this.expecting_key
      THEN XOk(Emit(this, "<key>"))
      ELSE XOk([Emit(this, "<string>") EXCEPT !.expecting_key = LastIsDictionary(this)])

\* the closure of write_string
StringClosure(this) ==
    IF this.expecting_key
      THEN XOk([Emit(this, "<key>") EXCEPT !.expecting_key = FALSE])
      ELSE XOk([Emit(this, "<string>") EXCEPT !.expecting_key = LastIsDictionary(this)])

\* write_event that closes the plist element whatever write_root_element says
xw_write_event_AlwaysClosed(w, f, element) ==
    LET w1 == IF w.started_plist THEN w
              ELSE [(IF w.write_root_element THEN Emit(w, "prologue") ELSE w)
                       EXCEPT !.started_plist = TRUE]
        r == IF f = "end" THEN EndCollectionClosure(w1)
             ELSE IF f = "string" THEN StringClosure(w1)
             ELSE ValueEventClosure(w1, element)
    IN  IF r.err # "-" THEN r
        ELSE IF r.w.stack = <<>> THEN XOk(Emit(r.w, "</plist>"))
        ELSE r

\* write_event: the prologue before the first event, the closure f, then </plist>
\* if no element is open; f is "end", "string" or "value", the last with its element
xw_write_event(w, f, element) ==
    LET w1 == IF w.started_plist THEN w
              ELSE [(IF w.write_root_element THEN Emit(w, "prologue") ELSE w)
                       EXCEPT !.started_plist = TRUE]
        r == IF f = "end" THEN EndCollectionClosure(w1)
             ELSE IF f = "string" THEN StringClosure(w1)
             ELSE ValueEventClosure(w1, element)
    IN  IF r.err # "-" THEN r
        ELSE IF r.w.stack = <<>> /\ r.w.write_root_element
          THEN XOk(Emit(r.w, "</plist>"))
        ELSE r

\* handle_pending_collection; the write_value_event it calls finds no collection
\* pending, as pending_collection was just set to None
handle_pending_collection(w) ==
    IF w.pending_collection = "Array"
      THEN xw_write_event([w EXCEPT !.pending_collection = "None"], "value", "<array>")
    ELSE IF w.pending_collection = "Dictionary"
      THEN xw_write_event([w EXCEPT !.pending_collection = "None"], "value", "<dict>")
    ELSE XOk(w)

write_value_event(w, element) ==
    LET h == handle_pending_collection(w)
    IN  IF h.err # "-" THEN h ELSE xw_write_event(h.w, "value", element)

\* write_start_array that writes the opening tag at once
write_start_array_Eager(w) ==
    LET h == handle_pending_collection(w)
    IN  IF h.err # "-" THEN h ELSE xw_write_event(h.w, "value", "<array>")

write_start_array(w) ==
    LET h == handle_pending_collection(w)
    IN  IF h.err # "-" THEN h ELSE XOk([h.w EXCEPT !.pending_collection = "Array"])

write_start_dictionary(w) ==
    LET h == handle_pending_collection(w)
    IN  IF h.err # "-" THEN h ELSE XOk([h.w EXCEPT !.pending_collection = "Dictionary"])

write_end_collection(w) == xw_write_event(w, "end", "-")

\* write_boolean, write_data, write_date, write_integer, write_real: one element
write_scalar(w, element) == write_value_event(w, element)

write_string(w) ==
    LET h == handle_pending_collection(w)
    IN  IF h.err # "-" THEN h ELSE xw_write_event(h.w, "string", "-")

\* write_uid that writes a pending collection before it fails
write_uid_AfterPending(w) ==
    XErr(handle_pending_collection(w).w, "UidNotSupportedInXmlPlist")

write_uid(w) == XErr(w, "UidNotSupportedInXmlPlist")

\* the writer after a write of an event of `kind` that ended as r
XmlAfter(kind, r) ==
    [r.w EXCEPT !.res = IF r.err = "-" THEN "ok" ELSE r.err,
                !.last = kind,
                !.failed = r.w.failed \/ r.err # "-",
                !.n = r.w.n + 1]

(***************************************************************************)
(* The autodetecting Reader.                                               *)
(*   input, pos : the bytes behind the reader and its position             *)
(*   inner      : "Uninitialized", "Xml", "Binary" or "Ascii"              *)
(*   slot       : the Uninitialized variant holds the reader               *)
(*   rd         : the state of the chosen reader                           *)
(*   res        : the result of the last next()                            *)
(*   err_offset : the byte offset of the last detection error, -1 for none *)
(* A probe is [err, val, pos, off]: err is set on an IO error, and off is  *)
(* then the byte offset the error carries.                                 *)
(***************************************************************************)
DetNew(input) ==
    [active |-> TRUE, input |-> input, pos |-> 0, inner |-> "Uninitialized",
     slot |-> TRUE, rd |-> Idle, res |-> ResInit, calls |-> 0, err_offset |-> -1]

\* what XmlReader::next returns on the bytes, read from offset 0
ResXml == [kind |-> "xml", ev |-> NoEvent, err |-> "-"]

ProbeOk(val, pos) == [err |-> FALSE, val |-> val, pos |-> pos, off |-> -1]
ProbeErr(pos, off) == [err |-> TRUE, val |-> FALSE, pos |-> pos, off |-> off]

\* next_byte: read_exact of one byte; at the end of the input the error carries
\* the stream position
next_byte(input, pos) ==
    IF pos < Len(input) THEN [err |-> FALSE, val |-> input[pos + 1], pos |-> pos + 1, off |-> -1]
    ELSE [err |-> TRUE, val |-> NoByte, pos |-> Len(input), off |-> Len(input)]

RECURSIVE MatchFrom(_, _, _, _)
\* the loop of reader_matches from the byte `index` (0-based) of pat
MatchFrom(input, pos, pat, index) ==
    IF index >= Len(pat) THEN ProbeOk(TRUE, pos)
    ELSE LET b == next_byte(input, pos)
         IN  IF b.err THEN ProbeErr(b.pos, b.off)
             ELSE IF b.val # pat[index + 1] THEN ProbeOk(FALSE, b.pos - (index + 1))
             ELSE MatchFrom(input, b.pos, pat, index + 1)

reader_matches(input, pos, pat) == MatchFrom(input, pos, pat, 0)

is_binary(input) ==
    LET m == reader_matches(input, 0, Magic)
    IN  IF m.err THEN m ELSE ProbeOk(m.val, 0)

BOMS ==
    << <<0, 0, 254, 255>>, <<255, 254, 0, 0>>, <<0, 0, 255, 254>>, <<254, 255, 0, 0>>,
       <<239, 187, 191>>, <<254, 255>>, <<255, 254>> >>

RECURSIVE SkipBomFrom(_, _)
\* the loop of skip_bom from the i-th mark; each round rewinds first
SkipBomFrom(input, i) ==
    IF i > Len(BOMS) THEN ProbeOk(FALSE, 0)
    ELSE LET m == reader_matches(input, 0, BOMS[i])
         IN  IF m.err THEN m
             ELSE IF m.val THEN ProbeOk(TRUE, m.pos)
             ELSE SkipBomFrom(input, i + 1)

skip_bom(input) == SkipBomFrom(input, 1)

\* u8::is_ascii_whitespace
is_ascii_whitespace(b) == b \in {ChSpace, ChTab, ChLF, ChFF, ChCR}

XmlPrefixes ==
    << <<63, 120, 109, 108>>, <<33, 45, 45>>, <<33, 68, 79, 67, 84, 89, 80, 69>>,
       <<112, 108, 105, 115, 116>> >>

RECURSIVE AnyPrefix(_, _, _)
\* reader_matches(..)? || reader_matches(..)? || ...
AnyPrefix(input, pos, i) ==
    IF i > Len(XmlPrefixes) THEN ProbeOk(FALSE, pos)
    ELSE LET m == reader_matches(input, pos, XmlPrefixes[i])
         IN  IF m.err \/ m.val THEN m ELSE AnyPrefix(input, m.pos, i + 1)

RECURSIVE IsXmlLoop(_, _)
IsXmlLoop(input, pos) ==
    LET b == next_byte(input, pos)
    IN  IF b.err THEN ProbeErr(b.pos, b.off)
        ELSE IF is_ascii_whitespace(b.val) THEN IsXmlLoop(input, b.pos)
        ELSE IF b.val = ChLt THEN AnyPrefix(input, b.pos, 1)
        ELSE ProbeOk(FALSE, b.pos)

is_xml(input) ==
    LET s == skip_bom(input)
        l == IsXmlLoop(input, s.pos)
    IN  IF s.err THEN s
        ELSE IF l.err THEN l
        ELSE ProbeOk(l.val, 0)

\* the facade after next() of the chosen reader left that reader as rd
DetReturned(d, rd) == [d EXCEPT !.rd = rd, !.res = rd.res]

\* next of the chosen reader; with no reader chosen the detection has failed, and
\* its error is what next() returns
DetDelegate(d, ch) ==
    IF d.inner = "Uninitialized" THEN d
    ELSE IF d.inner = "Xml" THEN [d EXCEPT !.res = ResXml]
    ELSE IF d.inner = "Binary" THEN DetReturned(d, bin_next(d.rd, ch))
    ELSE DetReturned(d, ascii_next(d.rd))

\* the variant the probes b of is_binary and x of is_xml choose: [err, inner, pos, off]
DetProbed(b, x) ==
    IF b.err THEN [err |-> TRUE, inner |-> "Uninitialized", pos |-> b.pos, off |-> b.off]
    ELSE IF b.val THEN [err |-> FALSE, inner |-> "Binary", pos |-> 0, off |-> -1]
    ELSE IF x.err THEN [err |-> TRUE, inner |-> "Uninitialized", pos |-> x.pos, off |-> x.off]
    ELSE IF x.val THEN [err |-> FALSE, inner |-> "Xml", pos |-> 0, off |-> -1]
    ELSE [err |-> FALSE, inner |-> "Ascii", pos |-> 0, off |-> -1]

DetChoose(input) == DetProbed(is_binary(input), is_xml(input))

\* DetDetected with the reader dropped on a failed detection
DetDetected_ReaderDropped(d, c) ==
    IF c.err
      THEN [d EXCEPT !.res = ResErr("Io"), !.pos = c.pos, !.err_offset = c.off,
                     !.slot = FALSE]
      ELSE [d EXCEPT !.inner = c.inner, !.pos = 0, !.slot = FALSE,
                     !.rd = IF c.inner = "Binary" THEN BinNew(d.input)
                            ELSE IF c.inner = "Ascii" THEN AsciiNew(d.input)
                            ELSE Idle]

\* the facade after the detection ended as c
DetDetected(d, c) ==
    IF c.err
      THEN [d EXCEPT !.res = ResErr("Io"), !.pos = c.pos, !.err_offset = c.off,
                     !.slot = TRUE]
      ELSE [d EXCEPT !.inner = c.inner, !.pos = 0, !.slot = FALSE,
                     !.rd = IF c.inner = "Binary" THEN BinNew(d.input)
                            ELSE IF c.inner = "Ascii" THEN AsciiNew(d.input)
                            ELSE Idle]

\* the first part of next(): the detection, unless a reader is chosen already
\* reader.take().unwrap() panics on an empty slot
DetInitialize(d) ==
    IF d.inner # "Uninitialized" THEN d
    ELSE IF ~d.slot THEN [d EXCEPT !.res = ResPanic("unwrap on None")]
    ELSE DetDetected(d, DetChoose(d.input))

\* Iterator::next of Reader
det_next(d, ch) == DetDelegate(DetInitialize([d EXCEPT !.calls = d.calls + 1]), ch)

\* A call that never returns or panics leaves no reader to call again.
Callable(r, max) == r.active /\ r.res.kind \notin {"hang", "panic"} /\ r.calls < max

AsciiNext ==
    /\ Callable(ascii, MaxCalls)
    /\ ascii' = ascii_next(ascii)
    /\ UNCHANGED <<bin, bw, xmlw, det, xmlr, dict, integer, date, counted, iter>>

BinNext ==
    /\ Callable(bin, MaxBinCalls)
    /\ \E ch \in BOOLEAN : bin' = bin_next(bin, ch)
    /\ UNCHANGED <<ascii, bw, xmlw, det, xmlr, dict, integer, date, counted, iter>>

DetNext ==
    /\ Callable(det, MaxDetCalls)
    /\ \E ch \in BOOLEAN : det' = det_next(det, ch)
    /\ UNCHANGED <<ascii, bin, bw, xmlw, xmlr, dict, integer, date, counted, iter>>

\* BinaryWriter::new on the value to write
BwNew ==
    /\ bw.active /\ bw.phase = "start"
    /\ bw' = bw_new(bw)
    /\ UNCHANGED <<ascii, bin, xmlw, det, xmlr, dict, integer, date, counted, iter>>

\* BinaryWriter::write into an empty buffer
BwWrite ==
    /\ bw.active /\ bw.phase = "new"
    /\ bw' = bw_write(bw)
    /\ UNCHANGED <<ascii, bin, xmlw, det, xmlr, dict, integer, date, counted, iter>>

\* a reader is opened on the buffer the writer filled
BinOpen ==
    /\ bw.active /\ bw.phase = "written"
    /\ ~bin.active
    /\ bin' = BinNew(bw.out)
    /\ UNCHANGED <<ascii, bw, xmlw, det, xmlr, dict, integer, date, counted, iter>>

XmlCallable == xmlw.active /\ xmlw.n < MaxXmlEvents

WriteStartArray ==
    /\ XmlCallable
    /\ xmlw' = XmlAfter("StartArray", write_start_array(xmlw))
    /\ UNCHANGED <<ascii, bin, bw, det, xmlr, dict, integer, date, counted, iter>>

WriteStartDictionary ==
    /\ XmlCallable
    /\ xmlw' = XmlAfter("StartDictionary", write_start_dictionary(xmlw))
    /\ UNCHANGED <<ascii, bin, bw, det, xmlr, dict, integer, date, counted, iter>>

WriteEndCollection ==
    /\ XmlCallable
    /\ xmlw' = XmlAfter("EndCollection", write_end_collection(xmlw))
    /\ UNCHANGED <<ascii, bin, bw, det, xmlr, dict, integer, date, counted, iter>>

WriteBoolean ==
    /\ XmlCallable
    /\ xmlw' = XmlAfter("Boolean", write_scalar(xmlw, "<true/>"))
    /\ UNCHANGED <<ascii, bin, bw, det, xmlr, dict, integer, date, counted, iter>>

WriteData ==
    /\ XmlCallable
    /\ xmlw' = XmlAfter("Data", write_scalar(xmlw, "<data>"))
    /\ UNCHANGED <<ascii, bin, bw, det, xmlr, dict, integer, date, counted, iter>>

WriteDate ==
    /\ XmlCallable
    /\ xmlw' = XmlAfter("Date", write_scalar(xmlw, "<date>"))
    /\ UNCHANGED <<ascii, bin, bw, det, xmlr, dict, integer, date, counted, iter>>

WriteInteger ==
    /\ XmlCallable
    /\ xmlw' = XmlAfter("Integer", write_scalar(xmlw, "<integer>"))
    /\ UNCHANGED <<ascii, bin, bw, det, xmlr, dict, integer, date, counted, iter>>

WriteReal ==
    /\ XmlCallable
    /\ xmlw' = XmlAfter("Real", write_scalar(xmlw, "<real>"))
    /\ UNCHANGED <<ascii, bin, bw, det, xmlr, dict, integer, date, counted, iter>>

WriteString ==
    /\ XmlCallable
    /\ xmlw' = XmlAfter("String", write_string(xmlw))
    /\ UNCHANGED <<ascii, bin, bw, det, xmlr, dict, integer, date, counted, iter>>

WriteUid ==
    /\ XmlCallable
    /\ xmlw' = XmlAfter("Uid", write_uid(xmlw))
    /\ UNCHANGED <<ascii, bin, bw, det, xmlr, dict, integer, date, counted, iter>>


(***************************************************************************)
(* Inputs.                                                                 *)
(***************************************************************************)
\* The bytes the ASCII inputs are made of: one of each class the reader tells apart.
AsciiAlphabet ==
    {ChLParen, ChRParen, ChSlash, ChStar, ChQuote, ChBackslash, ChSpace, ChLF,
     ChSemi, ChEq, 97, 49, 255}

AsciiInputs(n) == SeqsUpTo(AsciiAlphabet, n)

\* The offset of each object of a document that starts with the 8-byte magic
RECURSIVE OffsetsFrom(_, _)
OffsetsFrom(objs, at) ==
    IF objs = <<>> THEN <<>>
    ELSE <<at>> \o OffsetsFrom(Tail(objs), at + Len(Head(objs)))

\* A binary document: magic, objects, offset table, trailer.
BinDoc(magic, objs, offset_size, ref_size, num_objects, top_object) ==
    LET body == Concat(objs)
        offs == OffsetsFrom(objs, 8)
        table == Concat([i \in 1..Len(offs) |-> NatToBE(offs[i], offset_size)])
    IN  magic \o body \o table
        \o Zeros(6) \o <<offset_size, ref_size>>
        \o NatToBE(num_objects, 8) \o NatToBE(top_object, 8)
        \o NatToBE(8 + Len(body), 8)

\* References stored in the objects of the documents; the largest is out of range
\* in every document of fewer than 3 objects.
DocRefs == {0, 1, 2}

\* Objects with 1-byte references: false, the integer 7, "a", an ASCII string that
\* is no UTF-8, a data object that declares 200 bytes and holds 1, the date
\* +infinity, arrays of up to 2 references and dictionaries of 1 entry.
DocObjects ==
    {<<8>>, <<16, 7>>, <<81, 97>>, <<81, 255>>, <<79, 16, 200, 1>>,
     <<51, 127, 240, 0, 0, 0, 0, 0, 0>>, <<160>>}
    \cup {<<161, r>> : r \in DocRefs}
    \cup {<<162, r, q>> : r \in DocRefs, q \in DocRefs}
    \cup {<<209, k, v>> : k \in DocRefs, v \in DocRefs}

BadMagic == <<98, 112, 108, 105, 115, 116, 48, 49>>
\* a count no document of the model can hold
BigCount == 200

DocObjectLists(n) == SeqsUpTo(DocObjects, n) \ {<<>>}

\* Well-formed containers around every object list, and each with one field off:
\* the magic, the declared number of objects, the top object, the offset size.
BinDocs(n) ==
    {BinDoc(Magic, o, 1, 1, Len(o), 0) : o \in DocObjectLists(n)}
    \cup {BinDoc(BadMagic, o, 1, 1, Len(o), 0) : o \in DocObjectLists(n)}
    \cup {BinDoc(Magic, o, 1, 1, BigCount, 0) : o \in DocObjectLists(n)}
    \cup {BinDoc(Magic, o, 1, 1, Len(o), Len(o)) : o \in DocObjectLists(n)}
    \cup {BinDoc(Magic, o, 3, 1, Len(o), 0) : o \in DocObjectLists(n)}
    \cup {SubSeq(Magic, 1, m) : m \in 0..8}

\* Integers at the edges of every width the writer tells apart
RtIntegers ==
    {IntOf(FALSE, Zeros(8)),
     IntOf(FALSE, Zeros(7) \o <<255>>),
     IntOf(FALSE, Zeros(6) \o <<1, 0>>),
     IntOf(FALSE, Zeros(4) \o <<1, 0, 0, 0>>),
     IntOf(FALSE, Zeros(3) \o <<1, 0, 0, 0, 0>>),
     IntOf(FALSE, <<127, 255, 255, 255, 255, 255, 255, 255>>),
     IntOf(FALSE, <<128, 0, 0, 0, 0, 0, 0, 0>>),
     IntOf(FALSE, <<255, 255, 255, 255, 255, 255, 255, 255>>),
     IntOf(TRUE, Zeros(7) \o <<1>>),
     IntOf(TRUE, <<128, 0, 0, 0, 0, 0, 0, 0>>)}

\* One or two values of every scalar type: 1.5, the date 0.0, "a" and U+00E9
RtScalars ==
    {VBool(TRUE), VBool(FALSE)}
    \cup {Scalar("Integer", i) : i \in RtIntegers}
    \cup {Scalar("Real", <<63, 248, 0, 0, 0, 0, 0, 0>>),
          Scalar("Date", Zeros(8)),
          Scalar("Data", <<>>), Scalar("Data", <<1, 2>>),
          VStr(<<97>>), VStr(<<195, 169>>)}

RtKeys == {VStr(<<97>>), VStr(<<98>>)}

\* Collections over a set of element values: arrays of up to 2 elements and
\* dictionaries of up to 2 entries, the keys in order
ArraysOf(E) == {Coll("Array", c) : c \in SeqsUpTo(E, 2)}
DictsOf(E) ==
    {Coll("Dictionary", <<>>)}
    \cup {Coll("Dictionary", <<k, v>>) : k \in RtKeys, v \in E}
    \cup {Coll("Dictionary", <<VStr(<<97>>), v, VStr(<<98>>), w>>) : v \in E, w \in E}

RtInner == {Coll("Array", <<>>), Coll("Array", <<VBool(TRUE)>>),
            Coll("Dictionary", <<VStr(<<97>>), VStr(<<97>>)>>)}

\* The values written: every scalar (no root for the writer) and the collections
RtValues ==
    RtScalars \cup ArraysOf(RtScalars) \cup DictsOf(RtScalars)
    \cup ArraysOf(RtInner) \cup DictsOf(RtInner)

(***************************************************************************)
(* Specifications: one per component.                                      *)
(***************************************************************************)
InitAscii ==
    /\ ascii \in {AsciiNew(i) : i \in AsciiInputs(MaxAsciiLen)}
    /\ bin = Idle
    /\ bw = Idle
    /\ xmlw = Idle
    /\ det = Idle
    /\ xmlr = Idle
    /\ dict = Idle
    /\ integer = Idle
    /\ date = Idle
    /\ counted = Idle /\ iter = Idle

SpecAscii == InitAscii /\ [][AsciiNext]_vars

InitBin ==
    /\ bin \in {BinNew(d) : d \in BinDocs(MaxObjs)}
    /\ ascii = Idle
    /\ bw = Idle
    /\ xmlw = Idle
    /\ det = Idle
    /\ xmlr = Idle
    /\ dict = Idle
    /\ integer = Idle
    /\ date = Idle
    /\ counted = Idle /\ iter = Idle

SpecBin == InitBin /\ [][BinNext]_vars

InitBinRT ==
    /\ bw \in {BwStart(v) : v \in RtValues}
    /\ bin = Idle
    /\ ascii = Idle
    /\ xmlw = Idle
    /\ det = Idle
    /\ xmlr = Idle
    /\ dict = Idle
    /\ integer = Idle
    /\ date = Idle
    /\ counted = Idle /\ iter = Idle

NextBinRT == BwNew \/ BwWrite \/ BinOpen \/ BinNext

SpecBinRT == InitBinRT /\ [][NextBinRT]_vars

InitXmlW ==
    /\ xmlw \in {XmlNew(r) : r \in BOOLEAN}
    /\ ascii = Idle
    /\ bin = Idle
    /\ bw = Idle
    /\ det = Idle
    /\ xmlr = Idle
    /\ dict = Idle
    /\ integer = Idle
    /\ date = Idle
    /\ counted = Idle /\ iter = Idle

NextXmlW ==
    \/ WriteStartArray \/ WriteStartDictionary \/ WriteEndCollection
    \/ WriteBoolean \/ WriteData \/ WriteDate \/ WriteInteger \/ WriteReal
    \/ WriteString \/ WriteUid

SpecXmlW == InitXmlW /\ [][NextXmlW]_vars

\* The bytes of the short inputs: the start of the magic, of an XML prefix and
\* of a byte-order mark, white space, and ASCII property list tokens
DetAlphabet == {98, 112, ChLt, 63, 239, ChSpace, ChLParen, ChRParen}

\* Short inputs, the XML prefixes on their own, and binary documents
DetInputs ==
    SeqsUpTo(DetAlphabet, MaxDetLen)
    \cup {<<ChLt>> \o XmlPrefixes[i] : i \in 1..Len(XmlPrefixes)}
    \cup {<<239, 187, 191, ChSpace, ChLt>> \o XmlPrefixes[1]}
    \cup {<<239, 187, 191, ChLParen, ChRParen>>}
    \cup {BinDoc(Magic, o, 1, 1, Len(o), 0) : o \in SeqsUpTo(DocObjects, 1) \ {<<>>}}

\* The autodetecting reader, next to the ASCII reader and the binary reader run
\* on the same bytes
InitDetect ==
    /\ \E i \in DetInputs :
          /\ det = DetNew(i)
          /\ ascii = AsciiNew(i)
          /\ bin = BinNew(i)
    /\ bw = Idle
    /\ xmlw = Idle
    /\ xmlr = Idle
    /\ dict = Idle
    /\ integer = Idle
    /\ date = Idle
    /\ counted = Idle /\ iter = Idle

NextDetect == DetNext \/ AsciiNext \/ BinNext

SpecDetect == InitDetect /\ [][NextDetect]_vars

\* The autodetecting reader on its own
InitDetectAlone ==
    /\ det \in {DetNew(i) : i \in DetInputs}
    /\ ascii = Idle
    /\ bin = Idle
    /\ bw = Idle
    /\ xmlw = Idle
    /\ xmlr = Idle
    /\ dict = Idle
    /\ integer = Idle
    /\ date = Idle
    /\ counted = Idle /\ iter = Idle

SpecDetectAlone == InitDetectAlone /\ [][DetNext]_vars

(***************************************************************************)
(* Properties.                                                             *)
(***************************************************************************)
Exhausted(r) == r.active /\ r.res.kind \in {"err", "none"}

\* C1: once next() of a reader has returned an error or the end of the stream,
\* every later call of next() returns None.
C1_NoneAfterEnd ==
    [][/\ Exhausted(ascii) => ascii'.res.kind = "none"
       /\ Exhausted(bin) => bin'.res.kind = "none"]_vars

\* C2: the binary reader never re-enters an object that is open on its parsing
\* stack.  The stack holds the root frame and one frame per open collection, so
\* with no object open twice it is never deeper than the offset table is long,
\* plus one.
C2_NoCycleOnStack == bin.active => Len(bin.stack) <= Len(bin.object_offsets) + 1

\* C3: no call of next() of the binary reader panics, whatever the bytes are.
C3_NeverPanics == bin.active => bin.res.kind # "panic"

\* C4: every call of next() of the ASCII reader returns.
C4_NextTerminates == ascii.active => ascii.res.kind # "hang"

\* C10: the binary reader never allocates a buffer for more elements than the
\* input has bytes: a declared count is checked against the data before it is
\* used as a capacity.
C10_AllocWithinInput == bin.active => bin.alloc <= Len(bin.input)

\* the reader opened on the written bytes has been read to its end
RoundTripDone ==
    /\ bw.active /\ bw.phase = "written"
    /\ bin.active /\ bin.res.kind \in {"none", "err", "panic"}

\* C5: a value with an array or dictionary root that is written by the binary
\* writer, read by the binary reader and rebuilt by the builder is the value
\* that was written.
C5_BinaryRoundTrip ==
    RoundTripDone =>
        /\ bin.res.kind = "none"
        /\ build(bin.events).ok
        /\ build(bin.events).val = bw.value

IntegerRoot ==
    /\ bw.active /\ bw.value.t = "Array"
    /\ Len(bw.value.c) = 1 /\ bw.value.c[1].t = "Integer"

\* C9: an integer of [i64::MIN, u64::MAX] that is written by the binary writer
\* is read back by the binary reader as the same integer.
C9_IntegerRoundTrip ==
    (RoundTripDone /\ IntegerRoot) =>
        /\ bin.res.kind = "none"
        /\ \E k \in 1..Len(bin.events) : bin.events[k] = Ev("Integer", bw.value.c[1].s)

(***************************************************************************)
(* The shape of what the XML writer wrote.  A scan keeps the open elements *)
(* as frames [ty, want_key] and records                                    *)
(*   nest  : every closing tag closed the innermost open element           *)
(*   keyed : no value was written into a dictionary that wanted a key      *)
(*   keys  : every key was written into a dictionary that wanted one, and  *)
(*           no dictionary was closed after a key                          *)
(*   roots : the values written with no element open                       *)
(***************************************************************************)
OpeningTags == {"<array>", "<dict>"}
ClosingTags == {"</array>", "</dict>"}
LeafElements ==
    {"<array/>", "<dict/>", "<true/>", "<data>", "<date>", "<integer>", "<real>",
     "<string>"}

ScanStart == [stack |-> <<>>, nest |-> TRUE, keyed |-> TRUE, keys |-> TRUE, roots |-> 0]

\* a value arrives in the innermost open element
PlaceValue(sc) ==
    LET d == Len(sc.stack)
    IN  IF d = 0 THEN [sc EXCEPT !.roots = sc.roots + 1]
        ELSE IF sc.stack[d].ty = "<array>" THEN sc
        ELSE IF sc.stack[d].want_key THEN [sc EXCEPT !.keyed = FALSE]
        ELSE [sc EXCEPT !.stack[d].want_key = TRUE]

ScanPiece(sc, piece) ==
    LET d == Len(sc.stack)
    IN  IF piece \in LeafElements THEN PlaceValue(sc)
        ELSE IF piece \in OpeningTags
          THEN LET placed == PlaceValue(sc)
               IN  [placed EXCEPT !.stack = Append(placed.stack,
                                      [ty |-> piece, want_key |-> TRUE])]
        ELSE IF piece = "<key>"
          THEN IF d > 0 /\ sc.stack[d].ty = "<dict>" /\ sc.stack[d].want_key
                 THEN [sc EXCEPT !.stack[d].want_key = FALSE]
                 ELSE [sc EXCEPT !.keys = FALSE]
        ELSE IF piece \in ClosingTags
          THEN IF d = 0 THEN [sc EXCEPT !.nest = FALSE]
               ELSE [sc EXCEPT !.stack = SubSeq(sc.stack, 1, d - 1),
                               !.nest = sc.nest /\ sc.stack[d].ty =
                                   (IF piece = "</array>" THEN "<array>" ELSE "<dict>"),
                               !.keys = sc.keys /\ sc.stack[d].want_key]
        ELSE sc

RECURSIVE ScanFrom(_, _, _)
ScanFrom(out, i, sc) ==
    IF i > Len(out) THEN sc ELSE ScanFrom(out, i + 1, ScanPiece(sc, out[i]))

Scan(out) == ScanFrom(out, 1, ScanStart)

CountOf(out, piece) == Cardinality({i \in 1..Len(out) : out[i] = piece})

WellFormedDocument(out) ==
    LET sc == Scan(out)
    IN  /\ sc.nest /\ sc.stack = <<>>
        /\ sc.keyed /\ sc.keys
        /\ sc.roots = 1
        /\ CountOf(out, "prologue") = 1 /\ out[1] = "prologue"
        /\ CountOf(out, "</plist>") = 1 /\ out[Len(out)] = "</plist>"

\* every write so far was accepted, and no element is open or pending
XmlAcceptedDocument ==
    /\ xmlw.active /\ xmlw.write_root_element
    /\ xmlw.n > 0 /\ ~xmlw.failed
    /\ xmlw.stack = <<>> /\ xmlw.pending_collection = "None"

\* C6: a sequence of events that the XML writer accepted and that leaves no
\* element open was written as a well-formed document: the tags nest, the
\* children of a dictionary alternate key and value, and there is one root, one
\* prologue before it and one </plist> after it.
C6_AcceptedIsWellFormed == XmlAcceptedDocument => WellFormedDocument(xmlw.out)

\* C7: the XML writer never writes a value into a dictionary that expects a key:
\* an event that is no String and no EndCollection is rejected there.
C7_NoValueWithoutKey == xmlw.active => Scan(xmlw.out).keyed

RECURSIVE AsciiRunsClean(_, _)
\* the ASCII reader reaches the end of its input with no error in `fuel` calls
AsciiRunsClean(st, fuel) ==
    IF fuel = 0 THEN FALSE
    ELSE LET n == ascii_next(st)
         IN  IF n.res.kind = "none" THEN TRUE
             ELSE IF n.res.kind = "event" THEN AsciiRunsClean(n, fuel - 1)
             ELSE FALSE

RECURSIVE BinRunsClean(_, _)
BinRunsClean(st, fuel) ==
    IF fuel = 0 THEN FALSE
    ELSE LET n == bin_next(st, FALSE)
         IN  IF n.res.kind = "none" THEN TRUE
             ELSE IF n.res.kind = "event" THEN BinRunsClean(n, fuel - 1)
             ELSE FALSE

\* letters, digits, the space and the array delimiters
PlainAsciiBytes == {ChSpace, ChLParen, ChRParen} \cup (ChZero..ChNine) \cup (65..90) \cup (97..122)

\* the input is made of plain ASCII property list bytes, and the ASCII reader
\* reads it to the end with at least one event and no error
ValidAscii(input) ==
    /\ \A i \in 1..Len(input) : input[i] \in PlainAsciiBytes
    /\ AsciiRunsClean(AsciiNew(input), MaxCalls)
    /\ ascii_next(AsciiNew(input)).res.kind = "event"

ValidBinary(input) == BinRunsClean(BinNew(input), MaxBinCalls)

\* C8: on a valid input the k-th next() of the autodetecting reader returns what
\* the k-th next() of the reader of the input's format returns, for every k.
C8_DetectSameAsFormatReader ==
    /\ (det.active /\ ascii.active /\ det.calls = ascii.calls /\ det.calls > 0
            /\ ValidAscii(det.input))
         => det.res = ascii.res
    /\ (det.active /\ bin.active /\ det.calls = bin.calls /\ det.calls > 0
            /\ ValidBinary(det.input))
         => det.res = bin.res

\* C11: a next() that runs the detection finds the reader in its slot; when the
\* detection fails with an IO error, next() returns that error and leaves the
\* facade uninitialized with the reader back in the slot, so that the next call
\* runs the detection again.
C11_FailedDetectionRestores ==
    [][(det.active /\ det.inner = "Uninitialized" /\ det'.calls = det.calls + 1)
          => /\ det.slot
             /\ det'.res.kind # "panic"
             /\ DetChoose(det.input).err
                  => /\ det'.res = ResErr("Io")
                     /\ det'.inner = "Uninitialized"
                     /\ det'.slot
                     /\ det'.input = det.input]_vars

\* a second detection has failed as the first did
C11_Witness ==
    /\ det.active /\ det.calls = 2
    /\ det.inner = "Uninitialized" /\ det.slot
    /\ det.res = ResErr("Io")

\* pat is in input from the 0-based offset pos
HasPrefixAt(input, pos, pat) ==
    /\ pos + Len(pat) <= Len(input)
    /\ SubSeq(input, pos + 1, pos + Len(pat)) = pat

\* the length of the byte-order mark input starts with, 0 with none
BomLength(input) ==
    IF \E i \in 1..Len(BOMS) : HasPrefixAt(input, 0, BOMS[i])
      THEN Len(BOMS[CHOOSE i \in 1..Len(BOMS) :
                      /\ HasPrefixAt(input, 0, BOMS[i])
                      /\ \A j \in 1..(i - 1) : ~HasPrefixAt(input, 0, BOMS[j])])
      ELSE 0

RECURSIVE SkipWhitespace(_, _)
\* the offset of the first byte from pos that is no whitespace
SkipWhitespace(input, pos) ==
    IF pos < Len(input) /\ is_ascii_whitespace(input[pos + 1])
      THEN SkipWhitespace(input, pos + 1)
      ELSE pos

\* "<" and one of the four XML openings at offset pos
XmlOpeningAt(input, pos) ==
    /\ HasPrefixAt(input, pos, <<ChLt>>)
    /\ \E i \in 1..Len(XmlPrefixes) : HasPrefixAt(input, pos + 1, XmlPrefixes[i])

\* the format the documented rule gives for a whole input
ExpectedFormat(input) ==
    IF HasPrefixAt(input, 0, Magic) THEN "Binary"
    ELSE IF XmlOpeningAt(input, SkipWhitespace(input, BomLength(input))) THEN "Xml"
    ELSE "Ascii"

\* C12: once next() has been called, the facade holds the binary reader when the
\* input starts with bplist00, else the XML reader when "<" and an XML opening
\* follow the byte-order mark and the whitespace, else the ASCII reader, whatever
\* the length of the input.
C12_FormatChosen ==
    (det.active /\ det.calls >= 1) => det.inner = ExpectedFormat(det.input)

\* the marker byte the binary reader decodes as the Boolean b
BooleanMarker(b) == IF b THEN 9 ELSE 8

\* C13: in the bytes the binary writer produced, the object of every Boolean of
\* the object list starts with the marker the reader decodes as that Boolean:
\* 0x08 for false and 0x09 for true.
C13_BooleanMarkers ==
    (bw.active /\ bw.phase = "written") =>
        \A i \in 1..Len(bw.object_list) :
            bw.object_list[i].t = "Boolean" =>
                bw.out[bw.object_offsets[i] + 1]
                    = BooleanMarker(bw.object_list[i].s = <<1>>)

\* offset_table_offset as the written trailer ends with it
WrittenTableOffset(out) == BEValue(SubSeq(out, Len(out) - 7, Len(out)), 0)

\* C14: the bytes the binary writer produced end with a trailer of 32 bytes that
\* starts with 6 padding bytes and the two sizes: the whole output is
\* offset_table_offset + num_objects * offset_size + 32 bytes long.
C14_TrailerLength ==
    (bw.active /\ bw.phase = "written") =>
        /\ Len(bw.out)
             = WrittenTableOffset(bw.out)
               + Len(bw.object_list)
                   * into_offset_size(size_of_count(WrittenTableOffset(bw.out)))
               + 32
        /\ SubSeq(bw.out, Len(bw.out) - 31, Len(bw.out) - 24)
             = Zeros(6) \o <<into_offset_size(size_of_count(WrittenTableOffset(bw.out))),
                             into_offset_size(bw.ref_size)>>

\* C15: BinaryWriter::new has succeeded exactly when the root value is an Array
\* or a Dictionary; for every other root it has failed, and no byte is written.
C15_RootMustBeCollection ==
    (bw.active /\ bw.phase # "start") =>
        /\ (bw.phase \in {"new", "written"}) = (bw.value.t \in {"Array", "Dictionary"})
        /\ (bw.phase = "rejected") = (bw.value.t \notin {"Array", "Dictionary"})
        /\ bw.phase \in {"new", "rejected"} => (bw.out = <<>> /\ bw.written = 0)

\* the writer has refused an Integer root
C15_Witness ==
    /\ bw.active /\ bw.phase = "rejected"
    /\ bw.value.t = "Integer"
    /\ bw.out = <<>>

\* C16: every write_uid fails with UidNotSupportedInXmlPlist, whatever the state
\* of the writer, and leaves what was written, the stack of open elements, the
\* expecting-key flag and the pending collection as they were.
C16_UidRefused ==
    [][(xmlw.active /\ xmlw'.n = xmlw.n + 1 /\ xmlw'.last = "Uid")
          => /\ xmlw'.res = "UidNotSupportedInXmlPlist"
             /\ xmlw'.out = xmlw.out
             /\ xmlw'.stack = xmlw.stack
             /\ xmlw'.expecting_key = xmlw.expecting_key
             /\ xmlw'.pending_collection = xmlw.pending_collection
             /\ xmlw'.started_plist = xmlw.started_plist]_vars

\* a Uid was refused below an open element, after some output and with a
\* collection still pending
C16_Witness ==
    /\ xmlw.active /\ xmlw.last = "Uid"
    /\ xmlw.res = "UidNotSupportedInXmlPlist"
    /\ xmlw.stack # <<>>
    /\ xmlw.pending_collection # "None"
    /\ xmlw.out # <<>>

\* input opens a block comment with its first two bytes and never closes it
UnterminatedBlockComment(input) ==
    /\ Len(input) >= 2
    /\ input[1] = ChSlash /\ input[2] = ChStar
    /\ \A i \in 3..(Len(input) - 1) : ~(input[i] = ChStar /\ input[i + 1] = ChSlash)

\* C17: the first next() on an input that ends inside a block comment returns
\* the fatal error IncompleteComment: neither the end of the stream nor a call
\* that does not return.
C17_UnterminatedCommentFails ==
    (ascii.active /\ ascii.calls = 1 /\ UnterminatedBlockComment(ascii.input))
        => ascii.res = ResErr("IncompleteComment")

\* C18: a first next() on an input that starts with "/" and a byte that is
\* neither "/" nor "*" returns an error, never an event.
C18_LoneSlashFails ==
    (/\ ascii.active /\ ascii.calls = 1
     /\ Len(ascii.input) >= 2
     /\ ascii.input[1] = ChSlash
     /\ ascii.input[2] \notin {ChSlash, ChStar})
        => ascii.res.kind = "err"

\* The bytes that end an unquoted token: the whitespace and ) , ; =
TokenTerminators == {ChSpace, ChCR, ChLF, ChTab, ChRParen, ChComma, ChSemi, ChEq}

RECURSIVE TokenEnd(_, _)
\* the offset of the first terminator of input from pos, its length with none
TokenEnd(input, pos) ==
    IF pos < Len(input) /\ input[pos + 1] \notin TokenTerminators
      THEN TokenEnd(input, pos + 1)
      ELSE pos

\* C19: a first next() on an input that starts with the letter "a" returns the
\* bytes before the first whitespace byte, ")", ",", ";" or "=" as one String,
\* and leaves that byte to be read next.
C19_TokenEndsAtTerminator ==
    (/\ ascii.active /\ ascii.calls = 1
     /\ ascii.input # <<>> /\ ascii.input[1] = 97
     /\ Utf8Valid(SubSeq(ascii.input, 1, TokenEnd(ascii.input, 0))))
        => /\ ascii.res = ResEvent(Ev("String", SubSeq(ascii.input, 1, TokenEnd(ascii.input, 0))))
           /\ ascii.peeked_char
                = IF TokenEnd(ascii.input, 0) < Len(ascii.input)
                    THEN ascii.input[TokenEnd(ascii.input, 0) + 1]
                    ELSE NoByte

(***************************************************************************)
(* The ASCII reader over single tokens and over the dictionary             *)
(* { name = James, age = 42 }.                                             *)
(***************************************************************************)
\* The bytes of a token: digits, a sign, a letter and the x of a 0x prefix
TokBytes == {ChZero, 50, 52, ChMinus, 97, 120}

ExampleInput ==
    <<ChLBrace, ChSpace, 110, 97, 109, 101, ChSpace, ChEq, ChSpace,
      74, 97, 109, 101, 115, ChComma, ChSpace, 97, 103, 101, ChSpace, ChEq,
      ChSpace, 52, 50, ChSpace, ChRBrace>>

\* Unquoted tokens with the separators space and line feed among them, and
\* quoted strings of the same bytes
TokInputs ==
    (SeqsUpTo(TokBytes \cup {ChSpace, ChLF}, MaxTokLen) \ {<<>>})
    \cup {<<ChQuote>> \o t \o <<ChQuote>> : t \in SeqsUpTo(TokBytes \cup {ChSpace}, MaxTokLen)}
    \cup {ExampleInput}

InitAsciiTok ==
    /\ ascii \in {AsciiNew(i) : i \in TokInputs}
    /\ bin = Idle
    /\ bw = Idle
    /\ xmlw = Idle
    /\ det = Idle
    /\ xmlr = Idle
    /\ dict = Idle
    /\ integer = Idle
    /\ date = Idle
    /\ counted = Idle /\ iter = Idle

SpecAsciiTok == InitAsciiTok /\ [][AsciiNext]_vars

\* what next() returns for an unquoted token of the bytes `token`
TokenResult(token) ==
    IF IntegerFromStr(token).ok
      THEN ResEvent(IntegerEvent(IntegerFromStr(token)))
      ELSE ResEvent(Ev("String", token))

\* the events of { name = James, age = 42 }
ExampleEvents ==
    <<Ev("StartDictionary", <<>>),
      Ev("String", <<110, 97, 109, 101>>),
      Ev("String", <<74, 97, 109, 101, 115>>),
      Ev("String", <<97, 103, 101>>),
      Ev("Integer", <<0, 42>>),
      Ev("EndCollection", <<>>)>>

\* C20: the unquoted token an input starts with, which ends before the first
\* whitespace byte, is returned as an Integer event when its text parses as an
\* Integer and as a String event with its text otherwise; a quoted string is
\* returned as a String event with the bytes between the quotes; and
\* { name = James, age = 42 } is returned as StartDictionary, String(name),
\* String(James), String(age), Integer(42), EndCollection and then the end.
C20_IntegerPromotion ==
    /\ (/\ ascii.active /\ ascii.calls = 1
        /\ ascii.input[1] \in TokBytes)
          => ascii.res = TokenResult(SubSeq(ascii.input, 1, TokenEnd(ascii.input, 0)))
    /\ (/\ ascii.active /\ ascii.calls = 1
        /\ ascii.input[1] = ChQuote)
          => ascii.res
               = ResEvent(Ev("String", SubSeq(ascii.input, 2, Len(ascii.input) - 1)))
    /\ (/\ ascii.active /\ ascii.input = ExampleInput
        /\ ascii.calls \in 1..Len(ExampleEvents))
          => ascii.res = ResEvent(ExampleEvents[ascii.calls])
    /\ (/\ ascii.active /\ ascii.input = ExampleInput
        /\ ascii.calls > Len(ExampleEvents))
          => ascii.res = ResNone

(***************************************************************************)
(* The XML reader, XmlReader over quick_xml's reader.  The input is the    *)
(* markup of the document: tokens [k, n, c] with k "Start", "End", "Empty" *)
(* or "Text", n the element name and c the bytes of a text.                *)
(*   pos      : the tokens quick_xml has consumed                          *)
(*   opened   : the names quick_xml keeps for check_end_names              *)
(*   expand   : the name of an empty element whose end is still to be      *)
(*              returned (expand_empty_elements), "-" for none             *)
(*   finished : the flag of XmlReader                                      *)
(***************************************************************************)
XTok(k, n, c) == [k |-> k, n |-> n, c |-> c]

XmlReaderNew(input) ==
    [active |-> TRUE, input |-> input, pos |-> 0, opened |-> <<>>, expand |-> "-",
     finished |-> FALSE, res |-> ResInit, calls |-> 0]

XEof == XTok("Eof", "-", <<>>)
XSyntaxError == XTok("Err", "-", <<>>)

\* check_end_names: an end tag must name the element opened last
read_end(st, t) ==
    IF st.opened # <<>> /\ st.opened[Len(st.opened)] = t.n
      THEN [st |-> [st EXCEPT !.pos = st.pos + 1,
                              !.opened = SubSeq(st.opened, 1, Len(st.opened) - 1)],
            ev |-> t]
      ELSE [st |-> [st EXCEPT !.pos = st.pos + 1], ev |-> XSyntaxError]

\* read_event_into of quick_xml on the token t
read_token(st, t) ==
    IF t.k = "Start"
      THEN [st |-> [st EXCEPT !.pos = st.pos + 1, !.opened = Append(st.opened, t.n)],
            ev |-> t]
    ELSE IF t.k = "Empty"
      THEN [st |-> [st EXCEPT !.pos = st.pos + 1, !.opened = Append(st.opened, t.n),
                              !.expand = t.n],
            ev |-> XTok("Start", t.n, <<>>)]
    ELSE IF t.k = "End" THEN read_end(st, t)
    ELSE [st |-> [st EXCEPT !.pos = st.pos + 1], ev |-> t]

\* ReaderState::read_xml_event: [st, ev]
read_xml_event(st) ==
    IF st.expand # "-"
      THEN [st |-> [st EXCEPT !.expand = "-",
                              !.opened = SubSeq(st.opened, 1, Len(st.opened) - 1)],
            ev |-> XTok("End", st.expand, <<>>)]
    ELSE IF st.pos >= Len(st.input) THEN [st |-> st, ev |-> XEof]
    ELSE read_token(st, st.input[st.pos + 1])

\* ReaderState::read_content after the event e: [st, res], res a String event
\* with the content or the error
ContentOf(e) ==
    IF e.ev.k = "Err" THEN [st |-> e.st, res |-> ResErr("InvalidXmlSyntax")]
    ELSE IF e.ev.k = "Text" THEN [st |-> e.st, res |-> ResEvent(Ev("String", e.ev.c))]
    ELSE IF e.ev.k = "End" THEN [st |-> e.st, res |-> ResEvent(Ev("String", <<>>))]
    ELSE IF e.ev.k = "Eof" THEN [st |-> e.st, res |-> ResErr("UnclosedXmlElement")]
    ELSE [st |-> e.st, res |-> ResErr("UnexpectedXmlOpeningTag")]

read_content(st) == ContentOf(read_xml_event(st))

\* the Start arm of read_next for the elements that return at once
StartElement(e) ==
    IF e.ev.n = "array" THEN [st |-> e.st, res |-> ResEvent(Ev("StartArray", <<>>))]
    ELSE IF e.ev.n = "dict" THEN [st |-> e.st, res |-> ResEvent(Ev("StartDictionary", <<>>))]
    ELSE IF e.ev.n \in {"key", "string"} THEN read_content(e.st)
    ELSE IF e.ev.n = "true" THEN [st |-> e.st, res |-> ResEvent(Ev("Boolean", <<1>>))]
    ELSE IF e.ev.n = "false" THEN [st |-> e.st, res |-> ResEvent(Ev("Boolean", <<0>>))]
    ELSE [st |-> e.st, res |-> ResErr("UnknownXmlElement")]

\* char::is_whitespace on every byte of a text
AllWhitespace(c) == \A i \in 1..Len(c) : c[i] \in {ChSpace, ChTab, ChLF, ChFF, ChCR}

RECURSIVE XmlReadAfter(_)
\* ReaderState::read_next from the event e on: [st, res]
XmlReadAfter(e) ==
    IF e.ev.k = "Err" THEN [st |-> e.st, res |-> ResErr("InvalidXmlSyntax")]
    ELSE IF e.ev.k = "Eof" THEN [st |-> e.st, res |-> ResNone]
    ELSE IF e.ev.k = "Start" /\ e.ev.n # "plist" THEN StartElement(e)
    ELSE IF e.ev.k = "End" /\ e.ev.n \in {"array", "dict"}
      THEN [st |-> e.st, res |-> ResEvent(Ev("EndCollection", <<>>))]
    ELSE IF e.ev.k = "Text" /\ ~AllWhitespace(e.ev.c)
      THEN [st |-> e.st, res |-> ResErr("UnexpectedXmlCharactersExpectedElement")]
    ELSE XmlReadAfter(read_xml_event(e.st))

xml_read_next(st) == XmlReadAfter(read_xml_event(st))

\* the reader after read_next ended as r
XmlReturned(r) ==
    [r.st EXCEPT !.res = r.res, !.finished = r.res.kind # "event"]

\* Iterator for XmlReader::next
xml_next(st) ==
    IF st.finished THEN [st EXCEPT !.res = ResNone, !.calls = st.calls + 1]
    ELSE XmlReturned(xml_read_next([st EXCEPT !.calls = st.calls + 1]))

XmlNext ==
    /\ Callable(xmlr, MaxXmlCalls)
    /\ xmlr' = xml_next(xmlr)
    /\ UNCHANGED <<ascii, bin, bw, xmlw, det, dict, integer, date, counted, iter>>

\* The markup of the inputs: the opening and closing tags of plist, array, dict
\* and string, the empty elements array and true, and a text
XmlTokens ==
    {XTok(k, n, <<>>) : k \in {"Start", "End"}, n \in {"plist", "array", "dict", "string"}}
    \cup {XTok("Empty", "array", <<>>), XTok("Empty", "true", <<>>),
          XTok("Text", "-", <<97>>)}

InitXmlR ==
    /\ xmlr \in {XmlReaderNew(i) : i \in SeqsUpTo(XmlTokens, MaxXmlTokens)}
    /\ ascii = Idle
    /\ bin = Idle
    /\ bw = Idle
    /\ xmlw = Idle
    /\ det = Idle
    /\ dict = Idle
    /\ integer = Idle
    /\ date = Idle
    /\ counted = Idle /\ iter = Idle

SpecXmlR == InitXmlR /\ [][XmlNext]_vars

RECURSIVE OpenAfter(_, _, _)
\* the elements left open after the tokens of input from the i-th on, read with
\* `open` open; <<"!">> when a closing tag does not close the innermost of them
OpenAfter(input, i, open) ==
    IF i > Len(input) THEN open
    ELSE IF input[i].k = "Start" THEN OpenAfter(input, i + 1, Append(open, input[i].n))
    ELSE IF input[i].k # "End" THEN OpenAfter(input, i + 1, open)
    ELSE IF open # <<>> /\ open[Len(open)] = input[i].n
      THEN OpenAfter(input, i + 1, SubSeq(open, 1, Len(open) - 1))
    ELSE <<"!">>

\* C21: a next() of the XML reader that reports the end of the stream, not
\* having failed before, has read an input in which every closing tag closes
\* the innermost open element and no element is open at the end; every other
\* input ends in an error.
C21_EndOnlyWhenAllClosed ==
    [][(/\ xmlr.active /\ ~xmlr.finished
        /\ xmlr'.calls = xmlr.calls + 1
        /\ xmlr'.res.kind = "none")
          => OpenAfter(xmlr.input, 1, <<>>) = <<>>]_vars

\* C22: an error returned by a next() that ran the detection, the facade being
\* uninitialized still, carries the byte offset 0.
C22_DetectionErrorAtOffsetZero ==
    (/\ det.active /\ det.calls >= 1
     /\ det.inner = "Uninitialized"
     /\ det.res.kind = "err")
        => det.err_offset = 0

(***************************************************************************)
(* The Dictionary, a wrapper of IndexMap<String, Value>.                   *)
(*   map   : the entries [k, v] in the order of iteration                  *)
(*   order : the keys of the dictionary in the order of their insertion,   *)
(*           kept beside the map to state what iteration must yield        *)
(***************************************************************************)
DictionaryNew == [active |-> TRUE, map |-> <<>>, order |-> <<>>, n |-> 0]

DictKeys == {"a", "b", "c"}
DictValues == {1, 2}

\* the index of the entry of key k, 0 with none
IndexOfKey(map, k) ==
    IF \E i \in 1..Len(map) : map[i].k = k
      THEN CHOOSE i \in 1..Len(map) : map[i].k = k
      ELSE 0

\* the elements of a sequence that satisfy keep, in their order
RECURSIVE Retained(_, _)
Retained(s, keep) ==
    IF s = <<>> THEN <<>>
    ELSE IF Head(s) \in keep THEN <<Head(s)>> \o Retained(Tail(s), keep)
    ELSE Retained(Tail(s), keep)

\* IndexMap::insert: a new key goes to the end, a present key keeps its place
IndexMapInsert(map, k, v) ==
    IF IndexOfKey(map, k) = 0 THEN Append(map, [k |-> k, v |-> v])
    ELSE [map EXCEPT ![IndexOfKey(map, k)] = [k |-> k, v |-> v]]

\* IndexMap::swap_remove of the entry at index i: the last entry takes its place
SwapRemoveAt(map, i) ==
    IF i = Len(map) THEN SubSeq(map, 1, Len(map) - 1)
    ELSE [j \in 1..(Len(map) - 1) |-> IF j = i THEN map[Len(map)] ELSE map[j]]

\* IndexMap::remove, which is swap_remove
IndexMapRemove(map, k) ==
    IF IndexOfKey(map, k) = 0 THEN map ELSE SwapRemoveAt(map, IndexOfKey(map, k))

\* IndexMap::retain: the kept entries in their order
IndexMapRetain(map, keep) == Retained(map, {[k |-> k, v |-> v] : k \in keep, v \in DictValues})

\* Dictionary::insert
dict_insert(d, k, v) ==
    [d EXCEPT !.map = IndexMapInsert(d.map, k, v),
              !.order = IF IndexOfKey(d.map, k) = 0 THEN Append(d.order, k) ELSE d.order,
              !.n = d.n + 1]

\* Dictionary::remove
dict_remove(d, k) ==
    [d EXCEPT !.map = IndexMapRemove(d.map, k),
              !.order = Retained(d.order, DictKeys \ {k}),
              !.n = d.n + 1]

\* Dictionary::retain with a closure that keeps the keys of `keep`
dict_retain(d, keep) ==
    [d EXCEPT !.map = IndexMapRetain(d.map, keep),
              !.order = Retained(d.order, keep),
              !.n = d.n + 1]

DictInsert ==
    /\ dict.active /\ dict.n < MaxDictOps
    /\ \E k \in DictKeys, v \in DictValues : dict' = dict_insert(dict, k, v)
    /\ UNCHANGED <<ascii, bin, bw, xmlw, det, xmlr, integer, date, counted, iter>>

DictRemove ==
    /\ dict.active /\ dict.n < MaxDictOps
    /\ \E k \in DictKeys : dict' = dict_remove(dict, k)
    /\ UNCHANGED <<ascii, bin, bw, xmlw, det, xmlr, integer, date, counted, iter>>

DictRetain ==
    /\ dict.active /\ dict.n < MaxDictOps
    /\ \E keep \in SUBSET DictKeys : dict' = dict_retain(dict, keep)
    /\ UNCHANGED <<ascii, bin, bw, xmlw, det, xmlr, integer, date, counted, iter>>

InitDict ==
    /\ dict = DictionaryNew
    /\ ascii = Idle
    /\ bin = Idle
    /\ bw = Idle
    /\ xmlw = Idle
    /\ det = Idle
    /\ xmlr = Idle
    /\ integer = Idle
    /\ date = Idle
    /\ counted = Idle /\ iter = Idle

NextDict == DictInsert \/ DictRemove \/ DictRetain

SpecDict == InitDict /\ [][NextDict]_vars

\* Dictionary::iter: the keys in the order of iteration
IterKeys(d) == [i \in 1..Len(d.map) |-> d.map[i].k]

\* C23: after any sequence of insert, remove and retain, iteration yields the
\* keys of the dictionary in the order of their insertion.
C23_IterationInInsertionOrder ==
    dict.active => IterKeys(dict) = dict.order

\* the elements open after the first i pieces of out
DepthAfter(out, i) ==
    Cardinality({j \in 1..i : out[j] \in OpeningTags})
    - Cardinality({j \in 1..i : out[j] \in ClosingTags})

\* the i-th piece of out ends a value written with no element open around it
RootCompleteAt(out, i) ==
    /\ out[i] \in LeafElements \cup ClosingTags
    /\ DepthAfter(out, i) = 0

\* C24: with root_element the XML writer writes the prologue once, as the first
\* thing it writes, and, as long as no call has failed, </plist> right after
\* each piece that completes a root value and nowhere else; without
\* root_element it writes neither, whatever the events.
C24_RootElementOption ==
    xmlw.active =>
        /\ ~xmlw.write_root_element =>
              /\ CountOf(xmlw.out, "prologue") = 0
              /\ CountOf(xmlw.out, "</plist>") = 0
        /\ xmlw.write_root_element =>
              /\ CountOf(xmlw.out, "prologue") <= 1
              /\ xmlw.out # <<>> => xmlw.out[1] = "prologue"
              /\ xmlw.started_plist = (xmlw.out # <<>>)
              /\ ~xmlw.failed => \A i \in 1..Len(xmlw.out) :
                    RootCompleteAt(xmlw.out, i)
                      = (i < Len(xmlw.out) /\ xmlw.out[i + 1] = "</plist>")

\* an array with one element was written as the root, between the prologue and
\* </plist>
C24_Witness ==
    /\ xmlw.active /\ xmlw.write_root_element
    /\ xmlw.out = <<"prologue", "<array>", "<true/>", "</array>", "</plist>">>

(***************************************************************************)
(* Integer::from_str on its own, with the ranges of i64 and u64.  The      *)
(* magnitudes are kept as digit strings: the limits have twenty digits.    *)
(*   input  : the text                                                     *)
(*   called : from_str has run                                             *)
(*   res    : its result, [ok, neg, digits, radix]                         *)
(***************************************************************************)
MaxIntLen == 5

\* the digits without their leading zeros
RECURSIVE NormDigits(_)
NormDigits(d) ==
    IF d # <<>> /\ HexVal(Head(d)) = 0 THEN NormDigits(Tail(d)) ELSE d

\* a <= b for two digit strings without leading zeros
LeqDigits(a, b) ==
    \/ Len(a) < Len(b)
    \/ /\ Len(a) = Len(b)
       /\ \/ a = b
          \/ \E i \in 1..Len(a) :
                /\ HexVal(a[i]) < HexVal(b[i])
                /\ \A j \in 1..(i - 1) : a[j] = b[j]

DecText(ds) == [i \in 1..Len(ds) |-> ChZero + ds[i]]

\* i64::MAX, -i64::MIN and u64::MAX in decimal, u64::MAX in hexadecimal
I64MaxDigits == DecText(<<9,2,2,3,3,7,2,0,3,6,8,5,4,7,7,5,8,0,7>>)
I64MinDigits == DecText(<<9,2,2,3,3,7,2,0,3,6,8,5,4,7,7,5,8,0,8>>)
U64MaxDigits == DecText(<<1,8,4,4,6,7,4,4,0,7,3,7,0,9,5,5,1,6,1,5>>)
U64MaxHex == [i \in 1..16 |-> 102]

ParseFailed == [ok |-> FALSE, neg |-> FALSE, digits |-> <<>>, radix |-> 0]

\* <i64 as FromStr>::from_str: one optional sign, decimal digits, in range
parse_i64(s) ==
    LET signed == s # <<>> /\ s[1] \in {ChPlus, ChMinus}
        d == IF signed THEN Tail(s) ELSE s
        neg == signed /\ s[1] = ChMinus
    IN  IF /\ AllDigits(d, 10)
           /\ LeqDigits(NormDigits(d), IF neg THEN I64MinDigits ELSE I64MaxDigits)
          THEN [ok |-> TRUE, neg |-> neg /\ NormDigits(d) # <<>>,
                digits |-> NormDigits(d), radix |-> 10]
          ELSE ParseFailed

\* u64::from_str_radix: one optional '+', digits of the radix, in range
u64_from_str_radix(s, radix) ==
    LET d == IF s # <<>> /\ s[1] = ChPlus THEN Tail(s) ELSE s
    IN  IF /\ AllDigits(d, radix)
           /\ LeqDigits(NormDigits(d), IF radix = 16 THEN U64MaxHex ELSE U64MaxDigits)
          THEN [ok |-> TRUE, neg |-> FALSE, digits |-> NormDigits(d), radix |-> radix]
          ELSE ParseFailed

integer_from_str(s) ==
    IF Len(s) >= 2 /\ s[1] = ChZero /\ s[2] = 120
      THEN u64_from_str_radix(TrimStart0x(s), 16)
      ELSE IF parse_i64(s).ok THEN parse_i64(s)
      ELSE u64_from_str_radix(s, 10)

IntegerNew(input) ==
    [active |-> TRUE, input |-> input, called |-> FALSE, res |-> ParseFailed]

IntegerParse ==
    /\ integer.active /\ ~integer.called
    /\ integer' = [integer EXCEPT !.called = TRUE,
                                  !.res = integer_from_str(integer.input)]
    /\ UNCHANGED <<ascii, bin, bw, xmlw, det, xmlr, dict, date, counted, iter>>

\* '0', '1', '9', 'f', 'x', '+', '-'
IntAlphabet == {ChZero, 49, ChNine, 102, 120, ChPlus, ChMinus}

\* the texts of tests::from_str_limits at and beyond the limits
LimitTexts ==
    { I64MaxDigits, I64MinDigits, U64MaxDigits,
      <<ChMinus>> \o I64MinDigits,
      <<ChMinus>> \o DecText(<<9,2,2,3,3,7,2,0,3,6,8,5,4,7,7,5,8,0,9>>),
      DecText(<<1,8,4,4,6,7,4,4,0,7,3,7,0,9,5,5,1,6,1,6>>),
      <<ChZero, 120>> \o U64MaxHex,
      <<ChZero, 120, 49>> \o [i \in 1..16 |-> ChZero] }

IntInputs(n) == SeqsUpTo(IntAlphabet, n) \cup LimitTexts

InitInteger ==
    /\ integer \in {IntegerNew(s) : s \in IntInputs(MaxIntLen)}
    /\ ascii = Idle /\ bin = Idle /\ bw = Idle /\ xmlw = Idle /\ det = Idle
    /\ xmlr = Idle /\ dict = Idle /\ date = Idle
    /\ counted = Idle /\ iter = Idle

SpecInteger == InitInteger /\ [][IntegerParse]_vars

\* the decimal form: an optional minus, digits, a value in [i64::MIN, u64::MAX]
DecimalForm(s) ==
    LET neg == s # <<>> /\ s[1] = ChMinus
        d == IF neg THEN Tail(s) ELSE s
    IN  /\ AllDigits(d, 10)
        /\ LeqDigits(NormDigits(d), IF neg THEN I64MinDigits ELSE U64MaxDigits)

\* the hexadecimal form: one 0x, hexadecimal digits, a value that fits u64
HexForm(s) ==
    /\ Len(s) >= 2 /\ s[1] = ChZero /\ s[2] = 120
    /\ AllDigits(SubSeq(s, 3, Len(s)), 16)
    /\ LeqDigits(NormDigits(SubSeq(s, 3, Len(s))), U64MaxHex)

\* C25: Integer::from_str accepts a text exactly when it is an optionally
\* negative decimal number in [i64::MIN, u64::MAX] or a single 0x followed by
\* hexadecimal digits of a value that fits u64, which it returns unsigned.
C25_FromStrAcceptsTwoForms ==
    (integer.active /\ integer.called) =>
        /\ integer.res.ok = (DecimalForm(integer.input) \/ HexForm(integer.input))
        /\ (integer.res.ok /\ HexForm(integer.input)) => ~integer.res.neg

(***************************************************************************)
(* Date::from_seconds_since_plist_epoch.  The f64 argument is its 8 bytes, *)
(* most significant first; two non-negative f64 compare as their bytes do. *)
(* SystemTime is std's on 64-bit unix, a signed 64-bit count of seconds:   *)
(* adding or subtracting a Duration panics when the count overflows.       *)
(*   input  : the argument                                                 *)
(*   ch     : the outcome where the toolchain decides (see below)          *)
(*   called : the function has run                                         *)
(*   res    : "none", "ok", "err" or "panic"                               *)
(***************************************************************************)
\* a <= b for two byte strings of the same length
BytesLeq(a, b) ==
    \/ a = b
    \/ \E i \in 1..Len(a) : a[i] < b[i] /\ \A j \in 1..(i - 1) : a[j] = b[j]

\* |f|
F64Abs(b) == <<b[1] % 128>> \o Tail(b)

\* f < 0.0
F64IsNegative(b) == b[1] >= 128 /\ F64Abs(b) # <<0, 0, 0, 0, 0, 0, 0, 0>>

\* the least f64 whose floor added to PLIST_EPOCH_UNIX_TIMESTAMP exceeds
\* i64::MAX: 2^63 - 955378 * 1024
AddOverflowsFrom == <<67, 223, 255, 255, 255, 241, 108, 14>>
\* 2^63, the least f64 whose floor is no i64
TwoTo63 == <<67, 224, 0, 0, 0, 0, 0, 0>>
\* the greatest f64 that PLIST_EPOCH_UNIX_TIMESTAMP minus its floor is an i64
\* for: 2^63 + 477689 * 2048
SubFitsUpTo == <<67, 224, 0, 0, 0, 7, 73, 249>>
\* 2^64, from where the cast `as u64` saturates (it was undefined before
\* rustc 1.45)
TwoTo64 == <<67, 240, 0, 0, 0, 0, 0, 0>>

\* ch decides where toolchains differ: the cast of a value of 2^64 or more,
\* and the subtraction of 2^63 seconds or a little more, which std refuses
\* when it converts the seconds to i64 first and performs when it subtracts
\* them unsigned
from_seconds_since_plist_epoch(b, ch) ==
    IF F64Exponent(b) = 2047 THEN "err"
    ELSE IF BytesLeq(TwoTo64, F64Abs(b)) THEN (IF ch THEN "panic" ELSE "ok")
    ELSE IF ~F64IsNegative(b)
      THEN IF BytesLeq(AddOverflowsFrom, F64Abs(b)) THEN "panic" ELSE "ok"
    ELSE IF ~BytesLeq(TwoTo63, F64Abs(b)) THEN "ok"
    ELSE IF BytesLeq(F64Abs(b), SubFitsUpTo) THEN (IF ch THEN "panic" ELSE "ok")
    ELSE "panic"

DateNew(input, ch) ==
    [active |-> TRUE, input |-> input, ch |-> ch, called |-> FALSE,
     res |-> "none"]

DateFromSeconds ==
    /\ date.active /\ ~date.called
    /\ date' = [date EXCEPT
                  !.called = TRUE,
                  !.res = from_seconds_since_plist_epoch(date.input, date.ch)]
    /\ UNCHANGED <<ascii, bin, bw, xmlw, det, xmlr, dict, integer, counted, iter>>

\* sign and exponent bytes from 0.0 over 1.0, 2^62, 2^63 and 2^64 to the
\* infinities and NaN, with mantissa tails around the two limits
F64Heads ==
    {<<s + h[1], h[2]>> : s \in {0, 128},
       h \in {<<0, 0>>, <<63, 240>>, <<65, 224>>, <<67, 208>>, <<67, 223>>,
              <<67, 224>>, <<67, 232>>, <<67, 240>>, <<84, 176>>,
              <<127, 239>>, <<127, 240>>, <<127, 248>>}}

F64Tails ==
    { <<0, 0, 0, 0, 0, 0>>, <<0, 0, 0, 0, 0, 1>>,
      <<255, 255, 255, 241, 108, 13>>, <<255, 255, 255, 241, 108, 14>>,
      <<0, 0, 0, 7, 73, 249>>, <<0, 0, 0, 7, 73, 250>>,
      <<255, 255, 255, 255, 255, 255>> }

DateInputs == {h \o t : h \in F64Heads, t \in F64Tails}

InitDate ==
    /\ date \in {DateNew(b, ch) : b \in DateInputs, ch \in BOOLEAN}
    /\ ascii = Idle /\ bin = Idle /\ bw = Idle /\ xmlw = Idle /\ det = Idle
    /\ xmlr = Idle /\ dict = Idle /\ integer = Idle
    /\ counted = Idle /\ iter = Idle

SpecDate == InitDate /\ [][DateFromSeconds]_vars

\* C26: from_seconds_since_plist_epoch returns a Date for every finite
\* argument and an error for NaN and the two infinities; it never panics.
C26_FiniteDatesAccepted ==
    (date.active /\ date.called) =>
        date.res = (IF F64Exponent(date.input) = 2047 THEN "err" ELSE "ok")

\* the reference the next call of the binary reader follows, -1 if it follows none
NextObjectRef(st) ==
    IF st.finished \/ st.ref_size = 0 \/ st.stack = <<>> THEN -1
    ELSE IF st.stack[Len(st.stack)].object_refs = <<>> THEN -1
    ELSE st.stack[Len(st.stack)].object_refs[
             Len(st.stack[Len(st.stack)].object_refs)]

\* C27: a call of the binary reader that follows a reference, the trailer's
\* top_object or one stored in an array or dictionary, which is not below the
\* number of objects returns an error.
C27_ReferencesChecked ==
    [][(/\ bin.active
        /\ bin'.calls = bin.calls + 1
        /\ NextObjectRef(bin) >= Len(bin.object_offsets))
          => bin'.res.kind = "err"]_vars

(***************************************************************************)
(* The binary reader on documents whose trailer declares every pair of     *)
(* offset_size and ref_size of TrailerSizes, over the objects the trailer  *)
(* declares or over none.                                                  *)
(***************************************************************************)
MaxTrailerObjs == 1

TrailerSizes == {0, 1, 2, 3}

TrailerDocs(n) ==
    {BinDoc(Magic, o, os, rs, IF none THEN 0 ELSE Len(o), 0) :
        o \in DocObjectLists(n), os \in TrailerSizes, rs \in TrailerSizes,
        none \in BOOLEAN}

InitBinTrailer ==
    /\ bin \in {BinNew(d) : d \in TrailerDocs(MaxTrailerObjs)}
    /\ ascii = Idle /\ bw = Idle /\ xmlw = Idle /\ det = Idle
    /\ xmlr = Idle /\ dict = Idle /\ integer = Idle /\ date = Idle
    /\ counted = Idle /\ iter = Idle

SpecBinTrailer == InitBinTrailer /\ [][BinNext]_vars

\* the offset_size and the ref_size of the trailer, 26 and 25 bytes from the end
TrailerOffsetSize(input) == input[Len(input) - 25]
TrailerRefSize(input) == input[Len(input) - 24]

\* C28: when the trailer's offset_size or ref_size is not 1, 2, 4 or 8, the
\* first next() of the binary reader returns an error, every later one
\* returns None without reading the trailer again, and no event is emitted.
C28_BadSizesRejected ==
    (/\ bin.active /\ bin.calls >= 1
     /\ \/ TrailerOffsetSize(bin.input) \notin {1, 2, 4, 8}
        \/ TrailerRefSize(bin.input) \notin {1, 2, 4, 8})
      => /\ bin.events = <<>>
         /\ bin.finished
         /\ bin.res.kind = (IF bin.calls = 1 THEN "err" ELSE "none")

\* the frame an event opens, "-" if it opens none
FrameOpened(e) ==
    IF e.kind = "StartPlist" THEN "Root"
    ELSE IF e.kind = "StartArray" THEN "Array"
    ELSE IF e.kind = "StartDictionary" THEN "Dict"
    ELSE "-"

\* the frame an event closes, "-" if it closes none
FrameClosed(e) ==
    IF e.kind = "EndPlist" THEN "Root"
    ELSE IF e.kind = "EndArray" THEN "Array"
    ELSE IF e.kind = "EndDictionary" THEN "Dict"
    ELSE "-"

\* the frames open after the events, outermost first; <<"!">> if an end event
\* does not close the innermost open frame
RECURSIVE OpenFrames(_, _)
OpenFrames(events, open) ==
    IF events = <<>> THEN open
    ELSE IF FrameOpened(Head(events)) # "-"
      THEN OpenFrames(Tail(events), Append(open, FrameOpened(Head(events))))
    ELSE IF FrameClosed(Head(events)) = "-" THEN OpenFrames(Tail(events), open)
    ELSE IF open # <<>> /\ open[Len(open)] = FrameClosed(Head(events))
      THEN OpenFrames(Tail(events), SubSeq(open, 1, Len(open) - 1))
    ELSE <<"!">>

FrameKinds(stack) == [i \in 1..Len(stack) |-> stack[i].ty]

\* C29: on every call of the binary reader that returns no error, a returned
\* event is the one event added to the stream; an end event is returned
\* exactly when the innermost frame has no reference left, and it ends that
\* frame; None is returned exactly when the root frame has been ended; and the
\* start and end events emitted so far nest as the frames on the stack do, so
\* they are balanced when the stream ends.
C29_EventsFollowFrames ==
    [][(/\ bin.active /\ ~bin.finished
        /\ bin'.calls = bin.calls + 1
        /\ bin'.res.kind \in {"event", "none"})
          => /\ bin'.events = (IF bin'.res.kind = "event"
                                 THEN Append(bin.events, bin'.res.ev)
                                 ELSE bin.events)
             /\ (bin'.res.kind = "event" /\ FrameClosed(bin'.res.ev) # "-")
                  = (/\ bin.stack # <<>>
                     /\ bin.stack[Len(bin.stack)].object_refs = <<>>)
             /\ (bin'.res.kind = "event" /\ FrameClosed(bin'.res.ev) # "-")
                  => FrameClosed(bin'.res.ev) = bin.stack[Len(bin.stack)].ty
             /\ (bin'.res.kind = "none")
                  = (/\ bin.stack = <<>> /\ bin.events # <<>>
                     /\ bin.events[Len(bin.events)].kind = "EndPlist")
             /\ OpenFrames(bin'.events, <<>>) = FrameKinds(bin'.stack)]_vars

\* a document whose root array holds the same empty array twice was read to
\* the end: eight events, then None
C29_Witness ==
    /\ bin.active /\ bin.finished /\ bin.res.kind = "none"
    /\ Len(bin.events) = 8
    /\ bin.events[2].kind = "StartArray" /\ bin.events[3].kind = "StartArray"
    /\ bin.events[8].kind = "EndPlist"

(***************************************************************************)
(* The binary reader on documents of six objects: object 0 is an array or  *)
(* a dictionary over references to the five objects after it, which are    *)
(* false, true, the integer 7, the string "a" and an array holding false.  *)
(***************************************************************************)
MaxRootLen == 2

OrderChildren == <<(<<8>>), (<<9>>), (<<16, 7>>), (<<81, 97>>), (<<161, 1>>)>>

OrderRefs == 1..Len(OrderChildren)

\* an array of the references, then a dictionary of the key references followed
\* by the value references
OrderRoots(n) ==
    {<<160 + Len(r)>> \o r : r \in SeqsUpTo(OrderRefs, n)}
    \cup {<<208 + Len(e[1])>> \o e[1] \o e[2] :
            e \in {p \in SeqsUpTo(OrderRefs, n) \X SeqsUpTo(OrderRefs, n) :
                     Len(p[1]) = Len(p[2])}}

OrderDocs(n) ==
    {BinDoc(Magic, <<o>> \o OrderChildren, 1, 1, 1 + Len(OrderChildren), 0) :
        o \in OrderRoots(n)}

InitBinOrder ==
    /\ bin \in {BinNew(d) : d \in OrderDocs(MaxRootLen)}
    /\ ascii = Idle /\ bw = Idle /\ xmlw = Idle /\ det = Idle
    /\ xmlr = Idle /\ dict = Idle /\ integer = Idle /\ date = Idle
    /\ counted = Idle /\ iter = Idle

SpecBinOrder == InitBinOrder /\ [][BinNext]_vars

\* the j-th reference stored in the collection at offset off (ref_size 1)
StoredRef(st, off, j) == st.input[off + 1 + j]

\* the events of the object a reference names, from the stored order alone:
\* an array's elements first to last, a dictionary's entries first to last,
\* each key before its value
RECURSIVE ExpectedOf(_, _)
RECURSIVE ExpectedOfAll(_, _)
ExpectedOf(st, ref) ==
    IF st.input[st.object_offsets[ref + 1] + 1] \div 16 = 10
      THEN <<Ev("StartArray", <<st.input[st.object_offsets[ref + 1] + 1] % 16>>)>>
           \o ExpectedOfAll(st,
                [j \in 1..(st.input[st.object_offsets[ref + 1] + 1] % 16) |->
                    StoredRef(st, st.object_offsets[ref + 1], j)])
           \o <<Ev("EndArray", <<>>)>>
    ELSE IF st.input[st.object_offsets[ref + 1] + 1] \div 16 = 13
      THEN <<Ev("StartDictionary", <<st.input[st.object_offsets[ref + 1] + 1] % 16>>)>>
           \o ExpectedOfAll(st,
                [j \in 1..(2 * (st.input[st.object_offsets[ref + 1] + 1] % 16)) |->
                    IF j % 2 = 1
                      THEN StoredRef(st, st.object_offsets[ref + 1], (j + 1) \div 2)
                      ELSE StoredRef(st, st.object_offsets[ref + 1],
                             (st.input[st.object_offsets[ref + 1] + 1] % 16)
                               + (j \div 2))])
           \o <<Ev("EndDictionary", <<>>)>>
    ELSE <<read_object(st, st.object_offsets[ref + 1], FALSE).res.ev>>

ExpectedOfAll(st, refs) ==
    IF refs = <<>> THEN <<>>
    ELSE ExpectedOf(st, Head(refs)) \o ExpectedOfAll(st, Tail(refs))

ExpectedStream(st) ==
    <<Ev("StartPlist", <<>>)>> \o ExpectedOf(st, 0) \o <<Ev("EndPlist", <<>>)>>

\* C30: the events the binary reader has emitted are the first events of the
\* stream in stored order, and all of it once the reader has returned None: a
\* dictionary storing the keys k1..kn and then the values v1..vn is emitted as
\* StartDictionary(n), k1, v1, ..., kn, vn, EndDictionary, an array as its
\* elements in stored order.
C30_StoredOrder ==
    (bin.active /\ bin.ref_size # 0 /\ bin.res.kind \in {"event", "none"}) =>
        /\ Len(bin.events) <= Len(ExpectedStream(bin))
        /\ bin.events = SubSeq(ExpectedStream(bin), 1, Len(bin.events))
        /\ bin.res.kind = "none" => bin.events = ExpectedStream(bin)

\* a dictionary of two entries with four different objects was read to the end
C30_Witness ==
    /\ bin.active /\ bin.res.kind = "none" /\ Len(bin.events) = 8
    /\ bin.events[2] = Ev("StartDictionary", <<2>>)
    /\ Cardinality({bin.events[i] : i \in 3..6}) = 4
    /\ bin.events[7].kind = "EndDictionary"

(***************************************************************************)
(* The binary reader on documents of one data object with an extended      *)
(* count: the marker 0x4f, the byte b after it, the count in the width the *)
(* two low bits of b select, and as many bytes of data.                    *)
(***************************************************************************)
MaxLenCount == 2

\* 0x10..0x13 and bytes that differ from them in every other bit pattern
LenBytes == {0, 1, 3, 15, 16, 17, 18, 19, 20, 23, 32, 51, 255}

LenWidth(b) == IF b % 4 = 0 THEN 1 ELSE IF b % 4 = 1 THEN 2
               ELSE IF b % 4 = 2 THEN 4 ELSE 8

LenDocs(n) ==
    {BinDoc(Magic, <<(<<79, b>> \o NatToBE(c, LenWidth(b)) \o [i \in 1..c |-> 7])>>,
            1, 1, 1, 0) : b \in LenBytes, c \in 0..n}

InitBinLen ==
    /\ bin \in {BinNew(d) : d \in LenDocs(MaxLenCount)}
    /\ ascii = Idle /\ bw = Idle /\ xmlw = Idle /\ det = Idle
    /\ xmlr = Idle /\ dict = Idle /\ integer = Idle /\ date = Idle
    /\ counted = Idle /\ iter = Idle

SpecBinLen == InitBinLen /\ [][BinNext]_vars

\* C31: the call of the binary reader that reads an object whose marker has
\* the low nibble 0xf returns the object only if the byte after the marker is
\* 0x10, 0x11, 0x12 or 0x13, and returns an error for any other byte.
C31_ExtendedCountMarker ==
    (bin.active /\ bin.calls = 2 /\ bin.input[9] % 16 = 15) =>
        bin.res.kind = (IF bin.input[10] \in {16, 17, 18, 19} THEN "event" ELSE "err")

(***************************************************************************)
(* The binary writer and reader on arrays of one string that is not ASCII: *)
(* 1 to MaxUnits times U+00E9, which the writer stores as UTF-16, one code *)
(* unit each, and the same after U+1F600, which takes two code units.      *)
(***************************************************************************)
MaxUnits == 16

EAcute(n) == Concat([i \in 1..n |-> <<195, 169>>])

Utf16Strings(n) ==
    {EAcute(k) : k \in 1..n}
    \cup {<<240, 159, 152, 128>> \o EAcute(k) : k \in 0..(n - 2)}

InitBinUtf16 ==
    /\ bw \in {BwStart(Coll("Array", <<VStr(s)>>)) : s \in Utf16Strings(MaxUnits)}
    /\ bin = Idle /\ ascii = Idle /\ xmlw = Idle /\ det = Idle
    /\ xmlr = Idle /\ dict = Idle /\ integer = Idle /\ date = Idle
    /\ counted = Idle /\ iter = Idle

SpecBinUtf16 == InitBinUtf16 /\ [][NextBinRT]_vars

\* C32: a string the binary writer stores as UTF-16, of any number of code
\* units, is read back by the binary reader as the same string: the reader
\* takes the count, inline or extended, as code units and reads twice as many
\* bytes.
C32_Utf16ReadBack ==
    RoundTripDone =>
        /\ bin.res.kind = "none"
        /\ Len(bin.events) = 5
        /\ bin.events[3] = Ev("String", bw.value.c[1].s)

\* the last piece written is a key
LastIsKey(w) == w.out # <<>> /\ w.out[Len(w.out)] = "<key>"

\* C33: after every event the XML writer accepts, expecting_key is true exactly
\* when the innermost element on the stack is a dictionary whose last child
\* written is not a key; it is false when the stack is empty or ends with an
\* array.
C33_ExpectingKey ==
    (xmlw.active /\ xmlw.res = "ok") =>
        xmlw.expecting_key = (LastIsDictionary(xmlw) /\ ~LastIsKey(xmlw))

\* a key and its value were written into a dictionary, which expects a key again
C33_Witness ==
    /\ xmlw.active /\ xmlw.res = "ok" /\ xmlw.expecting_key
    /\ xmlw.out = <<"prologue", "<dict>", "<key>", "<true/>">>

\* what write_event writes before the first event
PrologueIfFirst(w) ==
    IF ~w.started_plist /\ w.write_root_element THEN <<"prologue">> ELSE <<>>

\* what write_event writes after an event that leaves no element open
PlistEndIfRoot(w) ==
    IF w.stack = <<>> /\ w.write_root_element THEN <<"</plist>">> ELSE <<>>

OpeningTagOf(pending) == IF pending = "Array" THEN "<array>" ELSE "<dict>"
SelfClosingOf(pending) == IF pending = "Array" THEN "<array/>" ELSE "<dict/>"

\* C34: an accepted StartArray or StartDictionary leaves the collection
\* pending and writes nothing of it; an accepted EndCollection that finds a
\* collection pending writes its self-closing element and leaves the stack
\* as it is; any other accepted event that finds one pending first writes
\* its opening tag and pushes it.  One field holds the pending collection, so
\* there is at most one.
C34_PendingCollection ==
    [][(/\ xmlw.active /\ xmlw'.n = xmlw.n + 1 /\ xmlw'.res = "ok")
         => /\ xmlw'.pending_collection \in {"None", "Array", "Dictionary"}
            /\ xmlw'.last = "StartArray" => xmlw'.pending_collection = "Array"
            /\ xmlw'.last = "StartDictionary"
                 => xmlw'.pending_collection = "Dictionary"
            /\ xmlw'.last \notin {"StartArray", "StartDictionary"}
                 => xmlw'.pending_collection = "None"
            /\ (xmlw'.last \in {"StartArray", "StartDictionary"}
                /\ xmlw.pending_collection = "None")
                 => (xmlw'.out = xmlw.out /\ xmlw'.stack = xmlw.stack)
            /\ (xmlw'.last = "EndCollection" /\ xmlw.pending_collection # "None")
                 => /\ xmlw'.stack = xmlw.stack
                    /\ xmlw'.out = xmlw.out \o PrologueIfFirst(xmlw)
                          \o <<SelfClosingOf(xmlw.pending_collection)>>
                          \o PlistEndIfRoot(xmlw)
            /\ (xmlw'.last # "EndCollection" /\ xmlw.pending_collection # "None")
                 => /\ xmlw'.stack = Append(xmlw.stack, xmlw.pending_collection)
                    /\ Len(xmlw'.out) > Len(xmlw.out \o PrologueIfFirst(xmlw))
                    /\ SubSeq(xmlw'.out, 1, Len(xmlw.out \o PrologueIfFirst(xmlw)) + 1)
                         = xmlw.out \o PrologueIfFirst(xmlw)
                             \o <<OpeningTagOf(xmlw.pending_collection)>>]_vars

\* an array was started and ended at once: the self-closing element is the root
C34_Witness ==
    /\ xmlw.active /\ xmlw.res = "ok" /\ xmlw.last = "EndCollection"
    /\ xmlw.out = <<"prologue", "<array/>", "</plist>">>
    /\ xmlw.stack = <<>> /\ xmlw.pending_collection = "None"

\* the values of a tree in document order: the value, then of a dictionary
\* every key and after them the walks of the values, of an array the walks of
\* the elements
RECURSIVE DocumentWalk(_)
RECURSIVE DocumentWalkAll(_)
DocumentWalk(v) ==
    <<v>> \o (IF v.t = "Dictionary"
                THEN [i \in 1..DictLen(v) |-> DictKey(v, i)]
                     \o DocumentWalkAll([i \in 1..DictLen(v) |-> DictVal(v, i)])
              ELSE IF v.t = "Array" THEN DocumentWalkAll(v.c)
              ELSE <<>>)

DocumentWalkAll(vs) ==
    IF vs = <<>> THEN <<>> ELSE DocumentWalk(Head(vs)) \o DocumentWalkAll(Tail(vs))

\* the first occurrence of every member of s, in order
RECURSIVE FirstOccurrences(_, _)
FirstOccurrences(s, seen) ==
    IF s = <<>> THEN seen
    ELSE IF \E i \in 1..Len(seen) : seen[i] = Head(s)
      THEN FirstOccurrences(Tail(s), seen)
    ELSE FirstOccurrences(Tail(s), Append(seen, Head(s)))

\* C35: after the flatten pass of the binary writer the object list holds the
\* values of the tree in the order of their first occurrence in a document-order
\* walk, the root first and the keys of a dictionary before its values; no two
\* entries are equal, and every value of the tree, keys included, has the
\* index of the entry equal to it.
C35_FlattenOrder ==
    (bw.active /\ bw.phase = "written") =>
        /\ bw.object_list = FirstOccurrences(DocumentWalk(bw.value), <<>>)
        /\ bw.object_list[1] = bw.value
        /\ \A i, j \in 1..Len(bw.object_list) :
              bw.object_list[i] = bw.object_list[j] => i = j
        /\ \A k \in 1..Len(DocumentWalk(bw.value)) :
              /\ get_ref_num(bw.object_list, DocumentWalk(bw.value)[k]) >= 0
              /\ bw.object_list[get_ref_num(bw.object_list,
                                            DocumentWalk(bw.value)[k]) + 1]
                   = DocumentWalk(bw.value)[k]

\* a dictionary of two entries with the same value was flattened: the
\* dictionary, its two keys and the one value
C35_Witness ==
    /\ bw.active /\ bw.phase = "written"
    /\ bw.value.t = "Dictionary" /\ DictLen(bw.value) = 2
    /\ DictVal(bw.value, 1) = DictVal(bw.value, 2)
    /\ DictVal(bw.value, 1).t = "Integer"
    /\ Len(bw.object_list) = 4

(***************************************************************************)
(* The binary writer alone, on the values of the round trip and on values  *)
(* at the limits of size_of_count: a document whose offset table starts    *)
(* beyond U8Limit while its objects start below, and one whose last object *)
(* starts beyond U16Limit; and its two sizing functions on counts around   *)
(* the limits.                                                             *)
(***************************************************************************)
U8Limit == 256
U16Limit == 65536

LimitValues(n) ==
    { Coll("Array", <<Scalar("Data", Zeros(n - 6))>>),
      Coll("Array", <<Scalar("Data", Zeros(n * n)), VStr(<<97>>)>>) }

(***************************************************************************)
(* size_of_count and write_int_sized on their own.                         *)
(*   count    : the count or number handed in                              *)
(*   ref_size : the RefSize handed to write_int_sized                      *)
(*   sized    : the RefSize size_of_count returned, "-" before the call    *)
(*   bytes    : what write_int_sized wrote                                 *)
(*   written  : write_int_sized was called                                 *)
(***************************************************************************)
RefSizes == {"U8", "U16", "U32", "U64"}

CountInputs(n) ==
    {0, 1, n - 1, n, n + 1, n * n - 1, n * n, n * n + 1, n * n * n}

CountedStart(ref_size, count) ==
    [active |-> TRUE, count |-> count, ref_size |-> ref_size, sized |-> "-",
     bytes |-> <<>>, written |-> FALSE]

SizeOfCount ==
    /\ counted.active /\ counted.sized = "-"
    /\ counted' = [counted EXCEPT !.sized = size_of_count(counted.count)]
    /\ UNCHANGED <<ascii, bin, bw, xmlw, det, xmlr, dict, integer, date, iter>>

WriteIntSized ==
    /\ counted.active /\ ~counted.written
    /\ counted' = [counted EXCEPT
                      !.bytes = write_int_sized(counted.ref_size, counted.count),
                      !.written = TRUE]
    /\ UNCHANGED <<ascii, bin, bw, xmlw, det, xmlr, dict, integer, date, iter>>

InitBwLimits ==
    /\ \/ /\ bw \in {BwStart(v) : v \in RtValues \cup LimitValues(U8Limit)}
          /\ counted = Idle
       \/ /\ bw = Idle
          /\ counted \in {CountedStart(r, c) : r \in RefSizes, c \in CountInputs(U8Limit)}
    /\ bin = Idle /\ ascii = Idle /\ xmlw = Idle /\ det = Idle
    /\ xmlr = Idle /\ dict = Idle /\ integer = Idle /\ date = Idle
    /\ iter = Idle

NextBwLimits == BwNew \/ BwWrite \/ SizeOfCount \/ WriteIntSized

SpecBwLimits == InitBwLimits /\ [][NextBwLimits]_vars

\* the offset at which write() wrote the marker of object i (from 1): the
\* header and the objects before it
RECURSIVE MarkerOffset(_, _)
MarkerOffset(w, i) ==
    IF i = 1 THEN Len(Magic)
    ELSE MarkerOffset(w, i - 1)
         + Len(write_object(w.object_list, w.ref_size, w.object_list[i - 1]))

\* entry i (from 1) of the written offset table, of the width the trailer declares
TableEntry(out, i) ==
    BEValue(SubSeq(out, WrittenTableOffset(out) + (i - 1) * TrailerOffsetSize(out) + 1,
                   WrittenTableOffset(out) + i * TrailerOffsetSize(out)), 0)

\* C36: in the output of write, entry i of the offset table is the offset of
\* the marker byte of object i, the entries increase with i, and the
\* offset_table_offset of the trailer is the offset of the first entry, the
\* end of the objects.
C36_OffsetTable ==
    (bw.active /\ bw.phase = "written") =>
        /\ \A i \in 1..Len(bw.object_list) :
              TableEntry(bw.out, i) = MarkerOffset(bw, i)
        /\ \A i \in 1..(Len(bw.object_list) - 1) :
              TableEntry(bw.out, i) < TableEntry(bw.out, i + 1)
        /\ WrittenTableOffset(bw.out) = MarkerOffset(bw, Len(bw.object_list) + 1)

\* a number fits an unsigned integer of `width` bytes
FitsWidth(width, n) ==
    IF width = 1 THEN n < U8Limit
    ELSE IF width = 2 THEN n < U16Limit
    ELSE IF width = 4 THEN n \div U16Limit < U16Limit
    ELSE TRUE

\* C37: write_int_sized writes a reference or an offset that fits the width
\* of its RefSize with exactly that many bytes, 1, 2, 4 or 8, and the
\* big-endian bytes are the number, not truncated.
C37_FullWidth ==
    (counted.active /\ counted.written
        /\ FitsWidth(into_offset_size(counted.ref_size), counted.count)) =>
        /\ Len(counted.bytes) = into_offset_size(counted.ref_size)
        /\ BEValue(counted.bytes, 0) = counted.count

\* the smallest of 1, 2, 4, 8 bytes that can hold n
SmallestWidth(n) ==
    CHOOSE w \in {1, 2, 4, 8} :
        FitsWidth(w, n) /\ \A v \in {1, 2, 4, 8} : v < w => ~FitsWidth(v, n)

\* the largest of the offsets write() recorded
LargestOffset(offsets) ==
    CHOOSE m \in {offsets[i] : i \in 1..Len(offsets)} :
        \A i \in 1..Len(offsets) : offsets[i] <= m

ResBytes(returned, last) ==
    [kind |-> "bytes", ev |-> NoEvent, err |-> "-", returned |-> returned,
     last |-> last]

ReturnedSoFar(st) == IF st.res.kind = "bytes" THEN st.res.returned ELSE <<>>

AsciiAdvance ==
    /\ ascii.active /\ ascii.calls < MaxCalls
    /\ ascii' = [advance(ascii).st EXCEPT
                    !.calls = ascii.calls + 1,
                    !.res = ResBytes(IF advance(ascii).ret # NoByte
                                       THEN Append(ReturnedSoFar(ascii),
                                                   advance(ascii).ret)
                                       ELSE ReturnedSoFar(ascii),
                                     advance(ascii).ret)]
    /\ UNCHANGED <<bin, bw, xmlw, det, xmlr, dict, integer, date, counted, iter>>

AdvanceAlphabet == {ChLParen, 97, 255}

InitAsciiAdvance ==
    /\ ascii \in {AsciiNew(i) : i \in SeqsUpTo(AdvanceAlphabet, MaxAsciiLen)}
    /\ bin = Idle /\ bw = Idle /\ xmlw = Idle /\ det = Idle
    /\ xmlr = Idle /\ dict = Idle /\ integer = Idle /\ date = Idle
    /\ counted = Idle /\ iter = Idle

SpecAsciiAdvance == InitAsciiAdvance /\ [][AsciiAdvance]_vars

\* C39: after every call of advance(), the bytes returned so far are the
\* first bytes of the input, one per call until the input is used up, the
\* last return is None only at the end of the input, current_pos is the
\* number of bytes returned, and peeked_char is the input byte that follows
\* them, None at the end of the input.
C39_AdvanceInOrder ==
    (ascii.active /\ ascii.calls > 0) =>
        /\ Len(ascii.res.returned)
              = (IF ascii.calls < Len(ascii.input) THEN ascii.calls
                 ELSE Len(ascii.input))
        /\ ascii.res.returned = SubSeq(ascii.input, 1, Len(ascii.res.returned))
        /\ (ascii.res.last = NoByte) => (ascii.calls > Len(ascii.input))
        /\ ascii.current_pos = Len(ascii.res.returned)
        /\ ascii.peeked_char
              = (IF ascii.current_pos < Len(ascii.input)
                   THEN ascii.input[ascii.current_pos + 1] ELSE NoByte)

\* three calls on an input of two bytes: both returned, then None
C39_Witness ==
    /\ ascii.active /\ ascii.calls = 3 /\ Len(ascii.input) = 2
    /\ ascii.res.kind = "bytes" /\ ascii.res.returned = ascii.input
    /\ ascii.res.last = NoByte /\ ascii.peeked_char = NoByte

(***************************************************************************)
(* The Events iterator over a Value.                                       *)
(*   value  : the value iterated                                           *)
(*   stack  : StackItems [k, vs]: Root and DictValue with their value,     *)
(*            Array with the elements left, Dict with the entries left as  *)
(*            <<key, value, ...>>                                          *)
(*   events : the events next() has returned                               *)
(*   last   : "Some" or "None", the kind of the last return                *)
(*   calls  : the number of calls of next()                                *)
(***************************************************************************)
MaxIterCalls == 14

StackItem(k, vs) == [k |-> k, vs |-> vs]

\* Events::new
EventsNew(value) ==
    [active |-> TRUE, value |-> value, stack |-> <<StackItem("Root", <<value>>)>>,
     events |-> <<>>, last |-> "-", calls |-> 0]

\* handle_value: [ev, stack]
handle_value(value, stack) ==
    IF value.t = "Array"
      THEN [ev |-> Ev("StartArray", <<Len(value.c)>>),
            stack |-> Append(stack, StackItem("Array", value.c))]
    ELSE IF value.t = "Dictionary"
      THEN [ev |-> Ev("StartDictionary", <<DictLen(value)>>),
            stack |-> Append(stack, StackItem("Dict", value.c))]
    ELSE [ev |-> Ev(value.t, value.s), stack |-> stack]

\* next() whose Array arm does not return the iterator to the stack
events_next_ArrayDropped(stack) ==
    IF stack = <<>> THEN [ev |-> NoEvent, stack |-> stack]
    ELSE IF stack[Len(stack)].k \in {"Root", "DictValue"}
      THEN handle_value(stack[Len(stack)].vs[1], SubSeq(stack, 1, Len(stack) - 1))
    ELSE IF stack[Len(stack)].vs = <<>>
      THEN [ev |-> Ev("EndCollection", <<>>), stack |-> SubSeq(stack, 1, Len(stack) - 1)]
    ELSE IF stack[Len(stack)].k = "Array"
      THEN handle_value(Head(stack[Len(stack)].vs), SubSeq(stack, 1, Len(stack) - 1))
    ELSE [ev |-> Ev("String", stack[Len(stack)].vs[1].s),
          stack |-> SubSeq(stack, 1, Len(stack) - 1)
                    \o <<StackItem("Dict", SubSeq(stack[Len(stack)].vs, 3,
                                                  Len(stack[Len(stack)].vs))),
                         StackItem("DictValue", <<stack[Len(stack)].vs[2]>>)>>]

\* Iterator::next of Events: [ev, stack], ev NoEvent for None
events_next(stack) ==
    IF stack = <<>> THEN [ev |-> NoEvent, stack |-> stack]
    ELSE IF stack[Len(stack)].k \in {"Root", "DictValue"}
      THEN handle_value(stack[Len(stack)].vs[1], SubSeq(stack, 1, Len(stack) - 1))
    ELSE IF stack[Len(stack)].vs = <<>>
      THEN [ev |-> Ev("EndCollection", <<>>), stack |-> SubSeq(stack, 1, Len(stack) - 1)]
    ELSE IF stack[Len(stack)].k = "Array"
      THEN handle_value(Head(stack[Len(stack)].vs),
                        Append(SubSeq(stack, 1, Len(stack) - 1),
                               StackItem("Array", Tail(stack[Len(stack)].vs))))
    ELSE [ev |-> Ev("String", stack[Len(stack)].vs[1].s),
          stack |-> SubSeq(stack, 1, Len(stack) - 1)
                    \o <<StackItem("Dict", SubSeq(stack[Len(stack)].vs, 3,
                                                  Len(stack[Len(stack)].vs))),
                         StackItem("DictValue", <<stack[Len(stack)].vs[2]>>)>>]

EventsNext ==
    /\ iter.active /\ iter.calls < MaxIterCalls
    /\ iter' = [iter EXCEPT
                  !.stack = events_next(iter.stack).stack,
                  !.events = IF events_next(iter.stack).ev = NoEvent THEN iter.events
                             ELSE Append(iter.events, events_next(iter.stack).ev),
                  !.last = IF events_next(iter.stack).ev = NoEvent THEN "None"
                           ELSE "Some",
                  !.calls = iter.calls + 1]
    /\ UNCHANGED <<ascii, bin, bw, xmlw, det, xmlr, dict, integer, date, counted>>

\* values of every kind, a Uid and a nest of three levels with them
IterValues(uid) ==
    RtValues
    \cup {Scalar("Uid", <<uid>>), Coll("Array", <<Scalar("Uid", <<uid>>)>>),
          Coll("Array", <<Coll("Dictionary",
                               <<VStr(<<97>>), Coll("Array", <<VBool(TRUE)>>)>>),
                          VBool(FALSE)>>)}

InitEvents ==
    /\ iter \in {EventsNew(v) : v \in IterValues(1)}
    /\ ascii = Idle /\ bin = Idle /\ bw = Idle /\ xmlw = Idle /\ det = Idle
    /\ xmlr = Idle /\ dict = Idle /\ integer = Idle /\ date = Idle
    /\ counted = Idle

SpecEvents == InitEvents /\ [][EventsNext]_vars

\* the event grammar of a value: one event for a scalar; StartArray(n), the
\* streams of the n elements, EndCollection; StartDictionary(n), each key as
\* a String followed by the stream of its value, EndCollection
RECURSIVE EventGrammar(_)
EventGrammar(v) ==
    IF v.t = "Array"
      THEN <<Ev("StartArray", <<Len(v.c)>>)>>
           \o Concat([i \in 1..Len(v.c) |-> EventGrammar(v.c[i])])
           \o <<Ev("EndCollection", <<>>)>>
    ELSE IF v.t = "Dictionary"
      THEN <<Ev("StartDictionary", <<DictLen(v)>>)>>
           \o Concat([i \in 1..DictLen(v) |->
                         <<Ev("String", DictKey(v, i).s)>>
                         \o EventGrammar(DictVal(v, i))])
           \o <<Ev("EndCollection", <<>>)>>
    ELSE <<Ev(v.t, v.s)>>

\* C40: the events next() has returned are the first events of the grammar
\* of the value, one per call until the grammar is used up; from then on
\* every call returns None and nothing more is yielded.
C40_EventsFollowGrammar ==
    iter.active =>
        /\ Len(iter.events)
              = (IF iter.calls < Len(EventGrammar(iter.value)) THEN iter.calls
                 ELSE Len(EventGrammar(iter.value)))
        /\ iter.events = SubSeq(EventGrammar(iter.value), 1, Len(iter.events))
        /\ (iter.last = "None") <=> (iter.calls > Len(EventGrammar(iter.value)))

\* a dictionary of two entries, one of them a collection, iterated to its end
\* and next() called twice more
C40_Witness ==
    /\ iter.active /\ iter.value.t = "Dictionary" /\ DictLen(iter.value) = 2
    /\ DictVal(iter.value, 1).t = "Array" /\ DictVal(iter.value, 1).c # <<>>
    /\ iter.events = EventGrammar(iter.value)
    /\ iter.calls = Len(iter.events) + 2 /\ iter.last = "None"

============================================================================
